---- MODULE Spec2Model ----
(***************************************************************************)
(* rss-rag: the acquisition-to-ingestion pipeline.                         *)
(*   - the SQLite item store (rss_rag/database.py)                         *)
(*   - fetch and dedup (rss_rag/feed_manager.py)                           *)
(*   - the ingestion tracker (rss_rag/ingestion.py)                        *)
(*   - the retry decorator (rss_rag/errors.py)                             *)
(*   - the cost ledger (rss_rag/cost_tracker.py)                           *)
(* The three subsystems share no state; each has its own specification.    *)
(***************************************************************************)
EXTENDS Integers, Sequences, FiniteSets, TLC

VARIABLES
    feeds,          \* table feeds: set of rows
    articles,       \* table articles: set of rows
    feedSeq,        \* sqlite_sequence for feeds (AUTOINCREMENT)
    articleSeq,     \* sqlite_sequence for articles (AUTOINCREMENT)
    ret,            \* the last store/fetch call and what it returned
    rpc,            \* per ingest run: position in ingest_pending_articles_async
    rsel,           \* per run: the rows fetched by the pending query
    rlimit,         \* per run: the limit argument
    ri,             \* per run: index of the article being handled
    rres,           \* per run: the IngestionResult of the article being handled
    results,        \* per run: the results the async generator has yielded so far
    delivered,      \* per run: the results the caller of ingest_pending_articles
                    \* has received
    prevFailed,     \* history, per run: article ids that failed in the run before
    rerun,          \* per run: the run was started after a stopped one
    inserted,       \* history: successful engine inserts per document id
    marks,          \* history: lightrag_id writes that changed a row, per article id
    runsStarted,    \* history: number of ingest runs started
    wpc,            \* handle_api_error's wrapper: "call", "returned" or "raised"
    attempt,        \* wrapper: the loop variable
    calls,          \* history: the outcome of every call of the wrapped function
    sleeps,         \* history: the delays passed to time.sleep
    wresult,        \* wrapper: what it returned or raised
    aw,             \* handle_api_error_async's wrapper: its position, loop
                    \* variable, calls made, delays awaited and result
    ledger,         \* CostTracker.calls
    file,           \* the backing file at storage_path
    lock,           \* CostTracker._lock: the thread holding it, or NoThread
    now,            \* the clock read by datetime.now()
    tpc,            \* per thread: position in record_call, get_summary or clear
    tcall,          \* per thread: the APICall being recorded
    tsnap,          \* per thread: the list _save is writing
    ti,             \* per thread: the position of get_summary's list iterator
    tsum,           \* per thread: the CostSummary being built
    tsince,         \* per thread: get_summary's since argument
    tret,           \* per thread: what its last call returned
    issued,         \* history: the records of all record_call calls made
    cleared,        \* history: number of clear calls made
    failedSaves,    \* history: the records whose _save in record_call failed
    fw,             \* per fetch worker: the locals of its fetch_and_store_feed call
    fhist,          \* history: fetch calls made, links seen, totals reported
    ing,            \* the last ingest_article call: arguments, engine calls, result
    history,        \* table reading_history: set of rows
    historySeq,     \* sqlite_sequence for reading_history (AUTOINCREMENT)
    batch,          \* the fetch_all_feeds generator: its feed list, position, results
    md              \* the _generate_doc_id call under way and the ids returned so far

storeVars == <<feeds, articles, feedSeq, articleSeq, ret>>
runVars == <<rpc, rsel, rlimit, ri, rres, results, delivered, prevFailed, rerun>>
histVars == <<inserted, marks, runsStarted>>
pipelineVars == <<storeVars, runVars, histVars>>
retryVars == <<wpc, attempt, calls, sleeps, wresult, aw>>
ledgerVars == <<ledger, file, lock, now, tpc, tcall, tsnap, ti, tsum, tsince, tret,
                issued, cleared, failedSaves>>
fetchVars == <<fw, fhist>>
ingestVars == <<ing>>
readingVars == <<history, historySeq>>
batchVars == <<batch>>
docIdVars == <<md>>
vars == <<pipelineVars, retryVars, ledgerVars, fetchVars, ingestVars, readingVars, batchVars,
          docIdVars>>

-----------------------------------------------------------------------------
(* Values *)

\* SQL NULL / Python None for text columns
Null == "NULL"
\* Python None for optional integers and timestamps: None is <<>>, v is <<v>>
None == <<>>
Some(v) == <<v>>

\* Bounds of the model
MaxRowId == 3
MaxRuns == 2
MaxEntries == 2
MaxLimit == 1
MaxRecords == 2
MaxClears == 1
MaxCalls == 3
MaxFetches == 2
MaxHistory == 2
MaxBatches == 1

Urls == {"u1", "u2"}
Links == {"l1", "l2", "l3"}
Runs == {"r1", "r2"}
Conns == {"c1", "c2"}

-----------------------------------------------------------------------------
(* Item store: rss_rag/database.py *)

FeedByUrl(fs, url) == {f \in fs : f.url = url}
ArticleByLink(as, link) == {a \in as : a.link = link}
ArticleById(as, id) == {a \in as : a.id = id}

\* get_feed_by_url: the row, or None
get_feed_by_url(fs, url) ==
    IF FeedByUrl(fs, url) = {} THEN None ELSE Some(CHOOSE f \in FeedByUrl(fs, url) : TRUE)

\* no link is ever found in the table
article_exists_Never(as, link) == FALSE

\* article_exists
article_exists(as, link) == ArticleByLink(as, link) # {}

\* INSERT INTO feeds (url, title): the UNIQUE(url) constraint decides
FeedInsertFails(fs, url) == FeedByUrl(fs, url) # {}

NewFeedRow(id, url, title) ==
    [id |-> id, url |-> url, title |-> title, last_fetched |-> None, active |-> TRUE]

\* the row of the URL is replaced by a new row
add_feed_Replace(fs, seq, url, title) ==
    <<(fs \ FeedByUrl(fs, url)) \cup {NewFeedRow(seq + 1, url, title)}, seq + 1, seq + 1>>

\* add_feed: <<feeds', feedSeq', returned id>>
add_feed(fs, seq, url, title) ==
    IF FeedInsertFails(fs, url)
    THEN <<fs, seq, (CHOOSE f \in FeedByUrl(fs, url) : TRUE).id>>
    ELSE <<fs \cup {NewFeedRow(seq + 1, url, title)}, seq + 1, seq + 1>>

\* the articles table without the UNIQUE constraint on link
ArticleInsertFails_NoUnique(as, title, link) == title = Null

\* INSERT INTO articles: UNIQUE(link) and NOT NULL(title) raise IntegrityError;
\* the FOREIGN KEY on feed_id is not enforced (no PRAGMA foreign_keys)
ArticleInsertFails(as, title, link) == ArticleByLink(as, link) # {} \/ title = Null

NewArticleRow(id, feed_id, title, content, link, pub_date) ==
    [id |-> id, feed_id |-> feed_id, title |-> title, content |-> content,
     link |-> link, pub_date |-> pub_date, lightrag_id |-> Null]

\* the id is the largest id of the table plus one, as without AUTOINCREMENT
add_article_Rowid(as, seq, feed_id, title, content, link, pub_date) ==
    IF ArticleInsertFails(as, title, link)
    THEN <<as, seq, None>>
    ELSE LET id == 1 + Cardinality({n \in 1..seq : \E a \in as : a.id >= n})
         IN <<as \cup {NewArticleRow(id, feed_id, title, content, link, pub_date)},
              seq + 1, Some(id)>>

\* add_article: <<articles', articleSeq', returned id or None>>
add_article(as, seq, feed_id, title, content, link, pub_date) ==
    IF ArticleInsertFails(as, title, link)
    THEN <<as, seq, None>>
    ELSE <<as \cup {NewArticleRow(seq + 1, feed_id, title, content, link, pub_date)},
           seq + 1, Some(seq + 1)>>

\* the UPDATE is never committed
update_article_lightrag_id_Lost(as, article_id, lightrag_id) == as

\* update_article_lightrag_id: UPDATE ... WHERE id = ?
update_article_lightrag_id(as, article_id, lightrag_id) ==
    {IF a.id = article_id THEN [a EXCEPT !.lightrag_id = lightrag_id] ELSE a : a \in as}

\* update_feed_last_fetched: CURRENT_TIMESTAMP is kept as "stamped"
update_feed_last_fetched(fs, feed_id) ==
    {IF f.id = feed_id THEN [f EXCEPT !.last_fetched = Some(1)] ELSE f : f \in fs}

\* deactivate_feed: UPDATE feeds SET active = 0 WHERE id = ?
deactivate_feed(fs, feed_id) ==
    {IF f.id = feed_id THEN [f EXCEPT !.active = FALSE] ELSE f : f \in fs}

\* add_reading_history: <<history', historySeq', returned id>>; the FOREIGN KEY
\* on article_id is not enforced
add_reading_history(hs, seq, article_id, action) ==
    <<hs \cup {[id |-> seq + 1, article_id |-> article_id, action |-> action]},
      seq + 1, seq + 1>>

\* only the feed row is deleted
delete_feed_NoCascade(fs, as, hs, feed_id) ==
    <<{f \in fs : f.id # feed_id}, as, hs>>

\* delete_feed: the three DELETEs of one transaction, <<feeds', articles', history'>>
delete_feed(fs, as, hs, feed_id) ==
    LET gone == {a.id : a \in {x \in as : x.feed_id = feed_id}}
    IN <<{f \in fs : f.id # feed_id},
         {a \in as : a.feed_id # feed_id},
         {h \in hs : h.article_id \notin gone}>>

\* the reading_history table of a new database
InitReading ==
    /\ history = {}
    /\ historySeq = 0

\* the UPDATE feeds SET title of fetch_and_store_feed
SetFeedTitle(fs, feed_id, title) ==
    {IF f.id = feed_id THEN [f EXCEPT !.title = title] ELSE f : f \in fs}

-----------------------------------------------------------------------------
(* The pending query: ingestion.py, ingest_pending_articles_async *)

\* SQLite's ORDER BY pub_date DESC: NULL is the smallest value, so it comes last
DateLE(d1, d2) == d1 = None \/ (d2 # None /\ d1[1] <= d2[1])

\* the pending query without its WHERE clause
Pending_NoFilter(as) == as

\* WHERE lightrag_id IS NULL
Pending(as) == {a \in as : a.lightrag_id = Null}

\* the count query without its WHERE clause
get_pending_count_All(as) == Cardinality(as)

\* get_pending_count: SELECT COUNT(*) FROM articles WHERE lightrag_id IS NULL
get_pending_count(as) == Cardinality({a \in as : a.lightrag_id = Null})

\* get_ingested_count: SELECT COUNT(*) FROM articles WHERE lightrag_id IS NOT NULL
get_ingested_count(as) == Cardinality({a \in as : a.lightrag_id # Null})

\* every order of the rows of S that ORDER BY pub_date DESC allows
\* (rows with equal pub_date come in an order SQL leaves open)
Orderings(S) ==
    {s \in [1..Cardinality(S) -> S] :
        /\ \A i, j \in 1..Cardinality(S) : i # j => s[i] # s[j]
        /\ \A i, j \in 1..Cardinality(S) : i < j => DateLE(s[j].pub_date, s[i].pub_date)}

\* "if limit: query += LIMIT": None and 0 add no LIMIT clause
ApplyLimit(s, limit) ==
    IF limit = None \/ limit[1] = 0 \/ limit[1] >= Len(s) THEN s ELSE SubSeq(s, 1, limit[1])

\* SELECT id, title, content, link
Row(a) == [id |-> a.id, title |-> a.title, content |-> a.content, link |-> a.link]

\* the possible results of cursor.fetchall()
SelectPending(as, limit) ==
    {ApplyLimit([i \in 1..Len(s) |-> Row(s[i])], limit) : s \in Orderings(Pending(as))}

-----------------------------------------------------------------------------
(* Ingestion of one article: ingestion.py *)

\* the links "c2" and "c3" stand for the two 72-character texts DocLinks[2] and
\* DocLinks[3], which differ in their 22nd character
CollidingLinks == {"c2", "c3"}

\* hashlib.md5(link).hexdigest(): a fixed digest per link, distinct on Links;
\* for "c2" and "c3" the digest that the rounds of MD5 give for their texts
generate_doc_id(link) ==
    CASE link = "l1" -> "md5_l1"
      [] link = "l2" -> "md5_l2"
      [] link = "l3" -> "md5_l3"
      [] link = "c2" -> "faad49866e9498fc1719f5289e7a0269"
      [] link = "c3" -> "faad49866e9498fc1719f5289e7a0269"

\* what the engine's ainsert can do: return, or raise with a message
EngineErrors == {"API Error"}
EngineOutcomes == {"ok"} \cup EngineErrors

\* "content or ''"
OrEmpty(content) == IF content = Null THEN "" ELSE content

\* the except branch reports success as well
ingest_article_AlwaysOk(article_id, title, content, link, outcome) ==
    [article_id |-> article_id, title |-> title, success |-> TRUE,
     lightrag_id |-> generate_doc_id(link), error |-> Null]

\* ingest_article_async: the IngestionResult for an engine outcome
ingest_article(article_id, title, content, link, outcome) ==
    IF outcome = "ok"
    THEN [article_id |-> article_id, title |-> title, success |-> TRUE,
          lightrag_id |-> generate_doc_id(link), error |-> Null]
    ELSE [article_id |-> article_id, title |-> title, success |-> FALSE,
          lightrag_id |-> Null, error |-> outcome]

NoResult == [article_id |-> 0, title |-> Null, success |-> FALSE,
             lightrag_id |-> Null, error |-> Null]

\* doc_text = f"Title: {title}\n\nURL: {link}\n\n{content or ''}"
doc_text(title, content, link) ==
    <<"Title: ", title, "\n\nURL: ", link, "\n\n", OrEmpty(content)>>

NoIngest ==
    [pc |-> "idle", article_id |-> 0, title |-> Null, content |-> Null, link |-> Null,
     calls |-> <<>>, raised |-> FALSE, result |-> NoResult]

InitIngest == ing = NoIngest

\* the call also writes the id it got to the article's row
IngestOne_Marking(article_id, title, content, link, outcome) ==
    /\ ing' = [pc |-> "returned", article_id |-> article_id, title |-> title,
               content |-> content, link |-> link,
               calls |-> <<[doc_text |-> doc_text(title, content, link),
                            ids |-> <<generate_doc_id(link)>>, file_paths |-> <<link>>,
                            outcome |-> outcome]>>,
               raised |-> FALSE,
               result |-> ingest_article(article_id, title, content, link, outcome)]
    /\ articles' = IF outcome = "ok"
                   THEN update_article_lightrag_id(articles, article_id, generate_doc_id(link))
                   ELSE articles
    /\ UNCHANGED <<feeds, feedSeq, articleSeq, ret, runVars, histVars>>

\* ingest_article(rag, article_id, title, content, link): one await of
\* rag.ainsert inside the try, and the IngestionResult of either branch
IngestOne(article_id, title, content, link, outcome) ==
    /\ ing' = [pc |-> "returned", article_id |-> article_id, title |-> title,
               content |-> content, link |-> link,
               calls |-> <<[doc_text |-> doc_text(title, content, link),
                            ids |-> <<generate_doc_id(link)>>, file_paths |-> <<link>>,
                            outcome |-> outcome]>>,
               raised |-> FALSE,
               result |-> ingest_article(article_id, title, content, link, outcome)]
    /\ UNCHANGED <<storeVars, runVars, histVars>>


RunActive(r) == rpc[r] \in {"insert", "mark", "yield"}

Stopped(r) == rpc[r] = "stopped"
NoRunActive == \A r \in Runs : ~RunActive(r)

FailedIds(rs) == {rs[k].article_id : k \in {j \in 1..Len(rs) : ~rs[j].success}}

\* ingest_pending_articles_async up to the loop: the pending query
IngestStart(r, limit) ==
    /\ ~RunActive(r)
    /\ runsStarted < MaxRuns
    /\ \E sel \in SelectPending(articles, limit) :
        /\ rsel' = [rsel EXCEPT ![r] = sel]
        /\ rpc' = [rpc EXCEPT ![r] = IF Len(sel) = 0 THEN "done" ELSE "insert"]
    /\ rlimit' = [rlimit EXCEPT ![r] = limit]
    /\ ri' = [ri EXCEPT ![r] = 1]
    /\ rres' = [rres EXCEPT ![r] = NoResult]
    /\ prevFailed' = [prevFailed EXCEPT ![r] = FailedIds(results[r])]
    /\ results' = [results EXCEPT ![r] = <<>>]
    /\ delivered' = [delivered EXCEPT ![r] = <<>>]
    /\ rerun' = [rerun EXCEPT ![r] = Stopped(r)]
    /\ runsStarted' = runsStarted + 1
    /\ ret' = [op |-> "ingest_pending_articles"]
    /\ UNCHANGED <<feeds, articles, feedSeq, articleSeq, inserted, marks>>

\* the lightrag_id of the result is written whether the insert succeeded or not
IngestArticle_AlwaysMark(r, outcome) ==
    /\ rpc[r] = "insert"
    /\ LET a == rsel[r][ri[r]]
           res == ingest_article(a.id, a.title, OrEmpty(a.content), a.link, outcome)
       IN /\ rres' = [rres EXCEPT ![r] = res]
          /\ inserted' = IF outcome = "ok"
                         THEN [inserted EXCEPT ![generate_doc_id(a.link)] = @ + 1]
                         ELSE inserted
          /\ rpc' = [rpc EXCEPT ![r] = "mark"]
    /\ UNCHANGED <<storeVars, rsel, rlimit, ri, results, delivered, prevFailed, rerun, marks,
                   runsStarted>>

\* the loop body up to the result: await ingest_article_async(...)
IngestArticle(r, outcome) ==
    /\ rpc[r] = "insert"
    /\ LET a == rsel[r][ri[r]]
           res == ingest_article(a.id, a.title, OrEmpty(a.content), a.link, outcome)
       IN /\ rres' = [rres EXCEPT ![r] = res]
          /\ inserted' = IF outcome = "ok"
                         THEN [inserted EXCEPT ![generate_doc_id(a.link)] = @ + 1]
                         ELSE inserted
          /\ rpc' = [rpc EXCEPT ![r] =
                        IF res.success /\ res.lightrag_id # "" /\ res.lightrag_id # Null
                        THEN "mark" ELSE "yield"]
    /\ UNCHANGED <<storeVars, rsel, rlimit, ri, results, delivered, prevFailed, rerun, marks,
                   runsStarted>>

\* the write of the lightrag_id is left out of the loop body
MarkIngested_Later(r) ==
    /\ rpc[r] = "mark"
    /\ rpc' = [rpc EXCEPT ![r] = "yield"]
    /\ UNCHANGED <<storeVars, rsel, rlimit, ri, rres, results, delivered, prevFailed, rerun,
                   histVars>>

\* "if result.success and result.lightrag_id: update_article_lightrag_id(...)"
MarkIngested(r) ==
    /\ rpc[r] = "mark"
    /\ LET id == rsel[r][ri[r]].id
       IN /\ articles' = update_article_lightrag_id(articles, id, rres[r].lightrag_id)
          /\ marks' = IF ArticleById(articles, id) # {}
                      THEN [marks EXCEPT ![id] = @ + 1] ELSE marks
    /\ rpc' = [rpc EXCEPT ![r] = "yield"]
    /\ UNCHANGED <<feeds, feedSeq, articleSeq, ret, rsel, rlimit, ri, rres, results, delivered,
                   prevFailed, rerun, inserted, runsStarted>>

\* the loop ends at the first failure
YieldResult_Abort(r) ==
    /\ rpc[r] = "yield"
    /\ results' = [results EXCEPT ![r] = Append(@, rres[r])]
    /\ ri' = [ri EXCEPT ![r] = @ + 1]
    /\ rpc' = [rpc EXCEPT ![r] = IF ri[r] + 1 > Len(rsel[r]) \/ ~rres[r].success
                                 THEN "done" ELSE "insert"]
    /\ UNCHANGED <<storeVars, rsel, rlimit, rres, delivered, prevFailed, rerun, histVars>>

\* "yield result" to collect(), which appends it to its list; then the next
\* article or the end of the loop
YieldResult(r) ==
    /\ rpc[r] = "yield"
    /\ results' = [results EXCEPT ![r] = Append(@, rres[r])]
    /\ ri' = [ri EXCEPT ![r] = @ + 1]
    /\ rpc' = [rpc EXCEPT ![r] = IF ri[r] + 1 > Len(rsel[r]) THEN "done" ELSE "insert"]
    /\ UNCHANGED <<storeVars, rsel, rlimit, rres, delivered, prevFailed, rerun, histVars>>

\* ingest_pending_articles: asyncio.run(collect()) has returned the whole list,
\* and "yield from results" hands the caller the next result
DeliverResult(r) ==
    /\ rpc[r] = "done"
    /\ Len(delivered[r]) < Len(results[r])
    /\ delivered' = [delivered EXCEPT ![r] = Append(@, results[r][Len(@) + 1])]
    /\ UNCHANGED <<storeVars, rpc, rsel, rlimit, ri, rres, results, prevFailed, rerun, histVars>>

\* the process stops during a run: everything in memory is lost, the store stays
ProcessStops(r) ==
    /\ RunActive(r)
    /\ rpc' = [rpc EXCEPT ![r] = "stopped"]
    /\ rsel' = [rsel EXCEPT ![r] = <<>>]
    /\ rlimit' = [rlimit EXCEPT ![r] = None]
    /\ ri' = [ri EXCEPT ![r] = 1]
    /\ rres' = [rres EXCEPT ![r] = NoResult]
    /\ results' = [results EXCEPT ![r] = <<>>]
    /\ delivered' = [delivered EXCEPT ![r] = <<>>]
    /\ prevFailed' = [prevFailed EXCEPT ![r] = {}]
    /\ UNCHANGED <<storeVars, rerun, histVars>>

-----------------------------------------------------------------------------
(* Fetch and dedup: rss_rag/feed_manager.py *)

\* what feedparser.parse(url) hands back for the entries of a feed; a missing
\* key is Null. content and pub_date are what extract_content and
\* parse_pub_date give for the entry.
Entry(link, title, content, pub_date) ==
    [link |-> link, title |-> title, content |-> content, pub_date |-> pub_date]

\* str(feed.bozo_exception) of a feed that cannot be parsed
BozoErrors == {"not well-formed"}

\* feed.entries[:max_articles]
Take(s, n) == IF n >= Len(s) THEN s ELSE SubSeq(s, 1, n)

\* the loop of fetch_feed: entries without a link are skipped, a missing title
\* becomes "Untitled"
RECURSIVE ToArticles(_, _)
ToArticles(es, url) ==
    IF es = <<>> THEN <<>>
    ELSE LET e == Head(es)
             rest == ToArticles(Tail(es), url)
         IN IF e.link = Null \/ e.link = "" THEN rest
            ELSE <<[title |-> IF e.title = Null THEN "Untitled" ELSE e.title,
                    content |-> e.content, link |-> e.link,
                    pub_date |-> e.pub_date, feed_url |-> url]>> \o rest

\* fetch_feed: <<feed_title, articles, error_message>>
fetch_feed(url, max_articles, parse) ==
    IF parse.raises
    THEN <<Null, <<>>, "Error fetching">>
    ELSE IF parse.bozo /\ parse.bozo_exception # Null /\ parse.entries = <<>>
    THEN <<Null, <<>>, parse.bozo_exception>>
    ELSE <<parse.title, ToArticles(Take(parse.entries, max_articles), url), Null>>

\* the "Store articles" loop of fetch_and_store_feed:
\* <<articles', articleSeq', new_count>>
RECURSIVE StoreArticles(_, _, _, _, _)
StoreArticles(as, seq, feed_id, arts, new_count) ==
    IF arts = <<>> THEN <<as, seq, new_count>>
    ELSE LET a == Head(arts)
         IN IF ~article_exists(as, a.link)
            THEN LET r == add_article(as, seq, feed_id, a.title, a.content, a.link, a.pub_date)
                 IN StoreArticles(r[1], r[2], feed_id, Tail(arts), new_count + 1)
            ELSE StoreArticles(as, seq, feed_id, Tail(arts), new_count)

FetchResult(url, title, found, new, error) ==
    [op |-> "fetch_and_store_feed", feed_url |-> url, feed_title |-> title,
     articles_found |-> found, articles_new |-> new, error |-> error]

\* fetch_and_store_feed, called while no ingest run is under way
fetch_and_store_feed(url, max_articles, parse) ==
    /\ NoRunActive
    /\ LET fetched == fetch_feed(url, max_articles, parse)
           feed_title == fetched[1]
           arts == fetched[2]
           error == fetched[3]
       IN IF error # Null /\ arts = <<>>
          THEN /\ ret' = FetchResult(url, Null, 0, 0, error)
               /\ UNCHANGED <<feeds, articles, feedSeq, articleSeq>>
          ELSE LET existing == get_feed_by_url(feeds, url)
                   added == add_feed(feeds, feedSeq, url, feed_title)
                   feed_id == IF existing # None THEN existing[1].id ELSE added[3]
                   fs1 == IF existing # None
                          THEN IF feed_title # Null /\ feed_title # ""
                                  /\ existing[1].title \in {Null, ""}
                               THEN SetFeedTitle(feeds, feed_id, feed_title)
                               ELSE feeds
                          ELSE added[1]
                   stored == StoreArticles(articles, articleSeq, feed_id, arts, 0)
               IN /\ stored[2] <= MaxRowId
                  /\ feeds' = update_feed_last_fetched(fs1, feed_id)
                  /\ feedSeq' = IF existing # None THEN feedSeq ELSE added[2]
                  /\ articles' = stored[1]
                  /\ articleSeq' = stored[2]
                  /\ ret' = FetchResult(url, feed_title, Len(arts), stored[3], error)
    /\ UNCHANGED <<runVars, histVars>>

\* the rows of fs in rowid order, as a table scan returns them
RECURSIVE RowsById(_)
RowsById(fs) ==
    IF fs = {} THEN <<>>
    ELSE LET first == CHOOSE f \in fs : \A g \in fs : f.id <= g.id
         IN <<first>> \o RowsById(fs \ {first})

\* SELECT * FROM feeds, whatever active_only says
get_all_feeds_All(fs, active_only) == RowsById(fs)

\* get_all_feeds: SELECT * FROM feeds [WHERE active = 1]
get_all_feeds(fs, active_only) ==
    RowsById(IF active_only THEN {f \in fs : f.active} ELSE fs)

\* fetch_all_feeds, "Import feeds from file if provided": <<feeds', feedSeq'>>
RECURSIVE ImportFeeds(_, _, _)
ImportFeeds(fs, seq, urls) ==
    IF urls = <<>> THEN <<fs, seq>>
    ELSE IF get_feed_by_url(fs, Head(urls)) = None
         THEN LET r == add_feed(fs, seq, Head(urls), Null)
              IN ImportFeeds(r[1], r[2], Tail(urls))
         ELSE ImportFeeds(fs, seq, Tail(urls))

\* feed["url"] of each row: all the loop of fetch_all_feeds reads of a row
FeedUrls(rows) == [k \in 1..Len(rows) |-> rows[k].url]

NoBatch == [pc |-> "idle", feeds |-> <<>>, i |-> 1, results |-> <<>>,
            parses |-> <<>>, active |-> {}, n |-> 0]

InitBatch == batch = NoBatch

\* fetch_all_feeds up to its loop: the import and the list of active feeds.
\* batch.active keeps the URLs that are active at that moment, batch.n counts
\* the batches started
BatchStart(feeds_file) ==
    /\ batch.pc \in {"idle", "done"}
    /\ LET r == IF feeds_file = None THEN <<feeds, feedSeq>>
                ELSE ImportFeeds(feeds, feedSeq, feeds_file[1])
       IN /\ r[2] <= MaxRowId
          /\ feeds' = r[1]
          /\ feedSeq' = r[2]
          /\ batch' = [pc |-> "running", feeds |-> FeedUrls(get_all_feeds(r[1], TRUE)),
                       i |-> 1,
                       results |-> <<>>, parses |-> <<>>,
                       active |-> {f.url : f \in {x \in r[1] : x.active}},
                       n |-> batch.n + 1]
    /\ UNCHANGED <<articles, articleSeq, ret, runVars, histVars>>

\* one turn of "for feed in feeds": fetch_and_store_feed and yield result
BatchFetch(parse) ==
    /\ batch.pc = "running"
    /\ batch.i <= Len(batch.feeds)
    /\ fetch_and_store_feed(batch.feeds[batch.i], MaxEntries, parse)
    /\ batch' = [batch EXCEPT !.i = @ + 1, !.results = Append(@, ret'),
                              !.parses = Append(@, parse)]

\* the loop is over: the generator is exhausted
BatchFinish ==
    /\ batch.pc = "running"
    /\ batch.i > Len(batch.feeds)
    /\ batch' = [batch EXCEPT !.pc = "done"]
    /\ UNCHANGED <<storeVars, runVars, histVars>>

-----------------------------------------------------------------------------
(* fetch_and_store_feed statement by statement, for callers that overlap:
   rss_rag/feed_manager.py *)

Workers == {"w1", "w2"}

NoParse == [raises |-> FALSE, bozo |-> FALSE, bozo_exception |-> Null,
            title |-> Null, entries |-> <<>>]

NoFetch ==
    [pc |-> "idle", feed_url |-> Null, parse |-> NoParse, feed_title |-> Null,
     articles |-> <<>>, error |-> Null, feed_id |-> 0, i |-> 1, new_count |-> 0,
     added |-> 0, known |-> FALSE, result |-> FetchResult(Null, Null, 0, 0, Null)]

InitFetch ==
    /\ fw = [w \in Workers |-> NoFetch]
    /\ fhist = [calls |-> 0, seen |-> {}, new |-> 0]

LinksOf(arts) == {arts[k].link : k \in 1..Len(arts)}
StoredLinks == {a.link : a \in articles}

\* feed_title, articles, error = fetch_feed(feed_url, max_articles), and the
\* early return on a fatal error
FetchFeed(w, url, max_articles, parse) ==
    /\ fw[w].pc \in {"idle", "done"}
    /\ LET fetched == fetch_feed(url, max_articles, parse)
           fatal == fetched[3] # Null /\ fetched[2] = <<>>
       IN /\ fw' = [fw EXCEPT ![w] =
                      [NoFetch EXCEPT
                         !.pc = IF fatal THEN "done" ELSE "feed",
                         !.feed_url = url, !.parse = parse,
                         !.feed_title = fetched[1], !.articles = fetched[2],
                         !.error = fetched[3],
                         !.known = LinksOf(fetched[2]) \subseteq StoredLinks,
                         !.result = IF fatal THEN FetchResult(url, Null, 0, 0, fetched[3])
                                    ELSE NoFetch.result]]
          /\ fhist' = [fhist EXCEPT !.calls = @ + 1,
                                    !.seen = @ \cup LinksOf(fetched[2])]
    /\ UNCHANGED <<storeVars, runVars, histVars>>

\* existing_feed = get_feed_by_url(conn, feed_url)
GetFeed(w) ==
    /\ fw[w].pc = "feed"
    /\ LET existing == get_feed_by_url(feeds, fw[w].feed_url)
       IN fw' = [fw EXCEPT ![w] =
                   IF existing # None
                   THEN [@ EXCEPT !.feed_id = existing[1].id,
                                  !.pc = IF fw[w].feed_title \notin {Null, ""}
                                            /\ existing[1].title \in {Null, ""}
                                         THEN "title" ELSE "loop"]
                   ELSE [@ EXCEPT !.pc = "add_feed"]]
    /\ UNCHANGED <<storeVars, runVars, histVars, fhist>>

\* UPDATE feeds SET title = ? WHERE id = ?
UpdateTitle(w) ==
    /\ fw[w].pc = "title"
    /\ feeds' = SetFeedTitle(feeds, fw[w].feed_id, fw[w].feed_title)
    /\ fw' = [fw EXCEPT ![w].pc = "loop"]
    /\ UNCHANGED <<articles, feedSeq, articleSeq, ret, runVars, histVars, fhist>>

\* feed_id = add_feed(conn, feed_url, feed_title)
CreateFeed(w) ==
    /\ fw[w].pc = "add_feed"
    /\ LET r == add_feed(feeds, feedSeq, fw[w].feed_url, fw[w].feed_title)
       IN /\ feeds' = r[1]
          /\ feedSeq' = r[2]
          /\ fw' = [fw EXCEPT ![w] = [@ EXCEPT !.feed_id = r[3], !.pc = "loop"]]
    /\ UNCHANGED <<articles, articleSeq, ret, runVars, histVars, fhist>>

\* for article in articles: if not article_exists(conn, article.link)
CheckArticle(w) ==
    /\ fw[w].pc = "loop"
    /\ fw[w].i <= Len(fw[w].articles)
    /\ fw' = [fw EXCEPT ![w] =
                IF article_exists(articles, fw[w].articles[fw[w].i].link)
                THEN [@ EXCEPT !.i = @ + 1]
                ELSE [@ EXCEPT !.pc = "add_article"]]
    /\ UNCHANGED <<storeVars, runVars, histVars, fhist>>

\* add_article(conn, ...) and new_count += 1
StoreArticle(w) ==
    /\ fw[w].pc = "add_article"
    /\ LET a == fw[w].articles[fw[w].i]
           r == add_article(articles, articleSeq, fw[w].feed_id, a.title, a.content,
                            a.link, a.pub_date)
       IN /\ articles' = r[1]
          /\ articleSeq' = r[2]
          /\ fw' = [fw EXCEPT ![w] =
                      [@ EXCEPT !.new_count = @ + 1,
                                !.added = IF r[3] # None THEN @ + 1 ELSE @,
                                !.i = @ + 1, !.pc = "loop"]]
    /\ UNCHANGED <<feeds, feedSeq, ret, runVars, histVars, fhist>>

\* after the loop: update_feed_last_fetched(conn, feed_id) and the FetchResult
FinishFetch(w) ==
    /\ fw[w].pc = "loop"
    /\ fw[w].i > Len(fw[w].articles)
    /\ feeds' = update_feed_last_fetched(feeds, fw[w].feed_id)
    /\ fw' = [fw EXCEPT ![w] =
                [@ EXCEPT !.pc = "done",
                          !.result = FetchResult(fw[w].feed_url, fw[w].feed_title,
                                                 Len(fw[w].articles), fw[w].new_count,
                                                 fw[w].error)]]
    /\ fhist' = [fhist EXCEPT !.new = @ + fw[w].new_count]
    /\ UNCHANGED <<articles, feedSeq, articleSeq, ret, runVars, histVars>>

-----------------------------------------------------------------------------
(* Retry policy: rss_rag/errors.py, handle_api_error *)

max_retries == 3
retry_delay == 1

\* error messages are sequences of characters, so that str(e).lower() and
\* the substring tests are computed
UpperAlpha == <<"A","B","C","D","E","F","G","H","I","J","K","L","M",
                "N","O","P","Q","R","S","T","U","V","W","X","Y","Z">>
LowerAlpha == <<"a","b","c","d","e","f","g","h","i","j","k","l","m",
                "n","o","p","q","r","s","t","u","v","w","x","y","z">>

LowerChar(c) ==
    IF \E i \in 1..Len(UpperAlpha) : UpperAlpha[i] = c
    THEN LowerAlpha[CHOOSE i \in 1..Len(UpperAlpha) : UpperAlpha[i] = c]
    ELSE c

\* lower() left out
Lower_Identity(msg) == msg

\* str.lower()
Lower(msg) == [i \in 1..Len(msg) |-> LowerChar(msg[i])]

\* "x in error_str"
Contains(msg, x) ==
    \E i \in 1..(Len(msg) - Len(x) + 1) : SubSeq(msg, i, i + Len(x) - 1) = x

RetryPatterns == {<<"r","a","t","e"," ","l","i","m","i","t">>,
                  <<"t","i","m","e","o","u","t">>,
                  <<"5","0","3">>,
                  <<"4","2","9">>}

\* any(x in error_str for x in ["rate limit", "timeout", "503", "429"])
Retryable(msg) == \E x \in RetryPatterns : Contains(Lower(msg), x)

\* the last attempt is retried as well
CanRetry_OffByOne(a) == a < max_retries

\* "if attempt < max_retries - 1"
CanRetry(a) == a < max_retries - 1

RECURSIVE Pow2(_)
Pow2(n) == IF n = 0 THEN 1 ELSE 2 * Pow2(n - 1)

\* the delay does not grow
Delay_Constant(a) == retry_delay

\* delay = retry_delay * (2**attempt)
Delay(a) == retry_delay * Pow2(a)

\* the exception of the wrapped call is raised again as it is
RaiseLLMError_Unwrapped(msg) == [kind |-> "raise", payload |-> msg]

\* the error is wrapped with the lowered text
RaiseLLMError_Lowered(msg) == [kind |-> "LLMError", payload |-> Lower(msg)]

\* raise LLMError(str(e)) from e
RaiseLLMError(msg) == [kind |-> "LLMError", payload |-> msg]

Returned(v) == [kind |-> "return", payload |-> v]
Raised(msg) == [kind |-> "raise", payload |-> msg]

MaxRetriesExceeded == <<"M","a","x"," ","r","e","t","r","i","e","s">>

\* the messages the wrapped function may raise with
ErrorMessages == {<<"R","a","t","e"," ","L","i","m","i","t">>,
                  <<"T","I","M","E","O","U","T">>,
                  <<"H","T","T","P"," ","5","0","3">>,
                  <<"4","2","9">>,
                  <<"A","u","t","h"," ","f","a","i","l","e","d">>,
                  <<"5","0","0">>}
ReturnValues == {<<"s","u","c","c","e","s","s">>}
FuncOutcomes == {Returned(v) : v \in ReturnValues} \cup {Raised(m) : m \in ErrorMessages}

NoAsyncCall == [pc |-> "call", attempt |-> 0, calls |-> <<>>, sleeps |-> <<>>,
                result |-> [kind |-> "none", payload |-> <<>>]]

InitRetry ==
    /\ wpc = "call"
    /\ attempt = 0
    /\ calls = <<>>
    /\ sleeps = <<>>
    /\ wresult = [kind |-> "none", payload |-> <<>>]
    /\ aw = NoAsyncCall

\* one pass of the for loop: the call, and the except branch
Attempt(outcome) ==
    /\ wpc = "call"
    /\ calls' = Append(calls, outcome)
    /\ IF outcome.kind = "return"
       THEN /\ wpc' = "returned"
            /\ wresult' = outcome
            /\ UNCHANGED <<attempt, sleeps>>
       ELSE IF Retryable(outcome.payload) /\ CanRetry(attempt)
       THEN \* time.sleep(delay); continue
            /\ sleeps' = Append(sleeps, Delay(attempt))
            /\ attempt' = attempt + 1
            /\ IF attempt + 1 < max_retries
               THEN wpc' = "call" /\ UNCHANGED wresult
               ELSE wpc' = "raised" /\ wresult' = RaiseLLMError(MaxRetriesExceeded)
       ELSE /\ wpc' = "raised"
            /\ wresult' = RaiseLLMError(outcome.payload)
            /\ UNCHANGED <<attempt, sleeps>>

\* the wrapped function is called again from the start
Invoke ==
    /\ wpc \in {"returned", "raised"}
    /\ wpc' = "call"
    /\ attempt' = 0
    /\ calls' = <<>>
    /\ sleeps' = <<>>
    /\ wresult' = [kind |-> "none", payload |-> <<>>]

WrapperAttempt == (\E outcome \in FuncOutcomes : Attempt(outcome)) /\ UNCHANGED <<aw, pipelineVars, ledgerVars, fetchVars, ingestVars, readingVars, batchVars, docIdVars>>
WrapperInvoke == Invoke /\ UNCHANGED <<aw, pipelineVars, ledgerVars, fetchVars, ingestVars, readingVars, batchVars, docIdVars>>

\* handle_api_error_async: the wrapper of the coroutine functions
async_max_retries == 3
async_retry_delay == 1

\* any(x in error_str for x in ["rate limit", "timeout", "503", "429"])
AsyncRetryable(msg) ==
    \E x \in {<<"r","a","t","e"," ","l","i","m","i","t">>,
              <<"t","i","m","e","o","u","t">>,
              <<"5","0","3">>,
              <<"4","2","9">>} : Contains(Lower(msg), x)

\* the first delay is doubled already
AsyncDelay_Doubled(a) == async_retry_delay * Pow2(a + 1)

\* delay = retry_delay * (2**attempt)
AsyncDelay(a) == async_retry_delay * Pow2(a)

\* one pass of the for loop: the awaited call, and the except branch
AsyncAttempt(outcome) ==
    /\ aw.pc = "call"
    /\ aw' =
         IF outcome.kind = "return"
         THEN [aw EXCEPT !.calls = Append(@, outcome), !.pc = "returned",
                         !.result = outcome]
         ELSE IF AsyncRetryable(outcome.payload) /\ aw.attempt < async_max_retries - 1
         THEN \* await asyncio.sleep(delay); continue
              [aw EXCEPT !.calls = Append(@, outcome),
                         !.sleeps = Append(@, AsyncDelay(aw.attempt)),
                         !.attempt = @ + 1,
                         !.pc = IF aw.attempt + 1 < async_max_retries
                                THEN "call" ELSE "raised",
                         !.result = IF aw.attempt + 1 < async_max_retries
                                    THEN @ ELSE RaiseLLMError(MaxRetriesExceeded)]
         ELSE [aw EXCEPT !.calls = Append(@, outcome), !.pc = "raised",
                         !.result = RaiseLLMError(outcome.payload)]

\* the wrapped coroutine function is awaited again from the start
AsyncInvoke ==
    /\ aw.pc \in {"returned", "raised"}
    /\ aw' = NoAsyncCall

AsyncWrapperAttempt == (\E outcome \in FuncOutcomes : AsyncAttempt(outcome)) /\ UNCHANGED <<wpc, attempt, calls, sleeps, wresult, pipelineVars, ledgerVars, fetchVars, ingestVars, readingVars, batchVars, docIdVars>>
AsyncWrapperInvoke == AsyncInvoke /\ UNCHANGED <<wpc, attempt, calls, sleeps, wresult, pipelineVars, ledgerVars, fetchVars, ingestVars, readingVars, batchVars, docIdVars>>

-----------------------------------------------------------------------------
(* Cost ledger: rss_rag/cost_tracker.py *)

Threads == {"t1", "t2"}
NoThread == "none"

\* PRICING, per 1M tokens, in hundredths of a dollar; "default" is the
\* fallback for a model that is not in the table
Pricing(model) ==
    CASE model = "gpt-4o-mini" -> [input |-> 15, output |-> 60]
      [] model = "text-embedding-3-small" -> [input |-> 2, output |-> 0]
      [] OTHER -> [input |-> 1, output |-> 1]

\* A Python float (an IEEE double) holding an amount of dollars is the pair
\* <<n, u>>: n is the amount rounded to units of 10^-8 dollars, and u is the
\* distance in ulps from the double nearest to n * 10^-8. Two floats are equal
\* exactly when their pairs are equal.
FZero == <<0, 0>>

\* the pairs of amounts of this ledger whose double sum is not the double
\* nearest to the sum of the amounts: <<n1, u1, n2, u2, u of the sum>>
InexactSums ==
    {
     <<1500, 1, 1500, 1, 1>>, <<1500, 1, 2000, 0, 1>>, <<1500, 1, 3000, 1, 1>>,
     <<1500, 1, 3500, 1, 1>>, <<1500, 1, 4000, 0, 1>>, <<1500, 1, 4500, 1, 1>>,
     <<1500, 1, 5000, 1, 1>>, <<1500, 1, 5500, 1, 1>>, <<1500, 1, 6000, 1, 1>>,
     <<1500, 1, 63000, 0, 1>>, <<1500, 1, 63500, 0, 1>>, <<1500, 1, 64000, 0, 1>>,
     <<2000, 0, 3000, 1, 1>>, <<2000, 0, 3500, 1, 1>>, <<2000, 0, 4000, 0, 1>>,
     <<2000, 0, 4500, 1, 1>>, <<2000, 0, 5000, 1, 1>>, <<2000, 0, 5500, 1, 1>>,
     <<2000, 0, 63000, 0, 1>>, <<2000, 0, 63500, 0, 1>>, <<2000, 0, 64000, 0, 1>>,
     <<3000, 1, 3000, 1, 1>>, <<3000, 1, 3500, 1, 1>>, <<3000, 1, 4000, 0, 1>>,
     <<3000, 1, 60000, 0, -1>>, <<3500, 1, 3500, 1, 1>>, <<3500, 1, 4000, 0, 1>>,
     <<3500, 1, 60000, 0, -1>>, <<4000, 0, 60000, 0, -1>>, <<60000, 0, 63000, -1, -1>>,
     <<60000, 0, 64000, -1, -1>>, <<60000, 0, 121500, 0, -1>>, <<61500, 0, 120000, 0, -1>>
    }

\* x + y on doubles: round-to-nearest of the exact sum of the two doubles
FAdd(x, y) ==
    IF x = FZero THEN y
    ELSE IF y = FZero THEN x
    ELSE LET hits == {e \in InexactSums :
                         \/ <<e[1], e[2]>> = x /\ <<e[3], e[4]>> = y
                         \/ <<e[1], e[2]>> = y /\ <<e[3], e[4]>> = x}
         IN <<x[1] + y[1], IF hits = {} THEN 0 ELSE (CHOOSE e \in hits : TRUE)[5]>>

\* the ulps by which the double computed for the cost is off the double
\* nearest to the exact cost: 1.5000000000000002e-05 for 1000 input and 500
\* output tokens at the default rate
CostUlps(model, input_tokens, output_tokens) ==
    IF Pricing(model) = [input |-> 1, output |-> 1]
       /\ input_tokens = 1000 /\ output_tokens = 500
    THEN 1 ELSE 0

\* (input_tokens / 1_000_000) * pricing["input"] + (output_tokens / 1_000_000)
\* * pricing["output"]
Cost(model, input_tokens, output_tokens) ==
    <<input_tokens * Pricing(model).input + output_tokens * Pricing(model).output,
      CostUlps(model, input_tokens, output_tokens)>>

APICall(timestamp, operation, model, input_tokens, output_tokens) ==
    [timestamp |-> timestamp, operation |-> operation, model |-> model,
     input_tokens |-> input_tokens, output_tokens |-> output_tokens,
     cost_usd |-> Cost(model, input_tokens, output_tokens)]

NoCallRecord == APICall(0, Null, Null, 0, 0)

\* the arguments record_call is called with
CallArgs == {[operation |-> "embedding", model |-> "text-embedding-3-small",
              input_tokens |-> 1000, output_tokens |-> 0],
             [operation |-> "summarization", model |-> "gpt-4o-mini",
              input_tokens |-> 2000, output_tokens |-> 500],
             [operation |-> "summarization", model |-> "my-model",
              input_tokens |-> 1000, output_tokens |-> 500]}

\* the since argument of get_summary: None, or the time of the second call
Sinces == {None, Some(1)}

EmptyDict == [k \in {} |-> FZero]
\* the entry is replaced instead of added to
DictAdd_Overwrite(d, k, v) == [x \in DOMAIN d \cup {k} |-> IF x = k THEN v ELSE d[x]]
\* d[k] = d.get(k, 0) + v
DictAdd(d, k, v) ==
    [x \in DOMAIN d \cup {k} |->
        IF x = k THEN FAdd(IF k \in DOMAIN d THEN d[k] ELSE FZero, v) ELSE d[x]]

CostSummary ==
    [total_calls |-> 0, total_input_tokens |-> 0, total_output_tokens |-> 0,
     total_cost_usd |-> FZero, by_operation |-> EmptyDict, by_model |-> EmptyDict]

\* the body of get_summary's loop for one call
Accumulate(summary, call, since) ==
    IF since # None /\ call.timestamp < since[1]
    THEN summary
    ELSE [total_calls |-> summary.total_calls + 1,
          total_input_tokens |-> summary.total_input_tokens + call.input_tokens,
          total_output_tokens |-> summary.total_output_tokens + call.output_tokens,
          total_cost_usd |-> FAdd(summary.total_cost_usd, call.cost_usd),
          by_operation |-> DictAdd(summary.by_operation, call.operation, call.cost_usd),
          by_model |-> DictAdd(summary.by_model, call.model, call.cost_usd)]

\* the lock is granted whether or not it is held
LockFree_Always == TRUE

\* threading.Lock: acquire blocks while another thread holds it
LockFree == lock = NoThread

AbsentFile == [state |-> "absent", records |-> <<>>]

InitLedger ==
    /\ ledger = <<>>
    /\ file = AbsentFile
    /\ lock = NoThread
    /\ now = 0
    /\ tpc = [t \in Threads |-> "idle"]
    /\ tcall = [t \in Threads |-> NoCallRecord]
    /\ tsnap = [t \in Threads |-> <<>>]
    /\ ti = [t \in Threads |-> 0]
    /\ tsum = [t \in Threads |-> CostSummary]
    /\ tsince = [t \in Threads |-> None]
    /\ tret = [t \in Threads |-> [op |-> "none"]]
    /\ issued = <<>>
    /\ cleared = 0
    /\ failedSaves = <<>>

\* record_call up to the lock: the cost and the APICall
RecordCall(t, a) ==
    /\ tpc[t] = "idle"
    /\ LET call == APICall(now, a.operation, a.model, a.input_tokens, a.output_tokens)
       IN /\ tcall' = [tcall EXCEPT ![t] = call]
          /\ issued' = Append(issued, call)
    /\ now' = now + 1
    /\ tpc' = [tpc EXCEPT ![t] = "rc_lock"]
    /\ UNCHANGED <<ledger, file, lock, tsnap, ti, tsum, tsince, tret, cleared, failedSaves>>

\* get_summary up to the lock: summary = CostSummary()
GetSummary(t, since) ==
    /\ tpc[t] = "idle"
    /\ tsum' = [tsum EXCEPT ![t] = CostSummary]
    /\ tsince' = [tsince EXCEPT ![t] = since]
    /\ ti' = [ti EXCEPT ![t] = 0]
    /\ tpc' = [tpc EXCEPT ![t] = "gs_lock"]
    /\ UNCHANGED <<ledger, file, lock, now, tcall, tsnap, tret, issued, cleared, failedSaves>>

\* clear up to the lock
Clear(t) ==
    /\ tpc[t] = "idle"
    /\ cleared' = cleared + 1
    /\ tpc' = [tpc EXCEPT ![t] = "cl_lock"]
    /\ UNCHANGED <<ledger, file, lock, now, tcall, tsnap, ti, tsum, tsince, tret, issued, failedSaves>>

AfterLock(pc) == CASE pc = "rc_lock" -> "rc_append"
                   [] pc = "gs_lock" -> "gs_loop"
                   [] pc = "cl_lock" -> "cl_clear"

\* the with block is entered without waiting for the holder
Acquire_Barging(t) ==
    /\ tpc[t] \in {"rc_lock", "gs_lock", "cl_lock"}
    /\ lock' = t
    /\ tpc' = [tpc EXCEPT ![t] = AfterLock(tpc[t])]
    /\ UNCHANGED <<ledger, file, now, tcall, tsnap, ti, tsum, tsince, tret, issued, cleared, failedSaves>>

\* with self._lock: (entering)
Acquire(t) ==
    /\ tpc[t] \in {"rc_lock", "gs_lock", "cl_lock"}
    /\ LockFree
    /\ lock' = t
    /\ tpc' = [tpc EXCEPT ![t] = AfterLock(tpc[t])]
    /\ UNCHANGED <<ledger, file, now, tcall, tsnap, ti, tsum, tsince, tret, issued, cleared, failedSaves>>

\* the new record takes the place of the last one
Append_Replace(t) ==
    /\ tpc[t] = "rc_append"
    /\ ledger' = IF ledger = <<>> THEN <<tcall[t]>>
                 ELSE [ledger EXCEPT ![Len(ledger)] = tcall[t]]
    /\ tpc' = [tpc EXCEPT ![t] = "rc_save"]
    /\ UNCHANGED <<file, lock, now, tcall, tsnap, ti, tsum, tsince, tret, issued, cleared, failedSaves>>

\* self.calls.append(call)
Append_(t) ==
    /\ tpc[t] = "rc_append"
    /\ ledger' = Append(ledger, tcall[t])
    /\ tpc' = [tpc EXCEPT ![t] = "rc_save"]
    /\ UNCHANGED <<file, lock, now, tcall, tsnap, ti, tsum, tsince, tret, issued, cleared, failedSaves>>

\* the list is emptied and the file is left as it is
ClearCalls_NoSave(t) ==
    /\ tpc[t] = "cl_clear"
    /\ ledger' = <<>>
    /\ tpc' = [tpc EXCEPT ![t] = "cl_unlock"]
    /\ UNCHANGED <<file, lock, now, tcall, tsnap, ti, tsum, tsince, tret, issued, cleared, failedSaves>>

\* self.calls.clear()
ClearCalls(t) ==
    /\ tpc[t] = "cl_clear"
    /\ ledger' = <<>>
    /\ tpc' = [tpc EXCEPT ![t] = "cl_save"]
    /\ UNCHANGED <<file, lock, now, tcall, tsnap, ti, tsum, tsince, tret, issued, cleared, failedSaves>>

\* the error of open is not caught: record_call raises it out of the with block
SaveOpen_Raises(t) ==
    /\ tpc[t] \in {"rc_save", "cl_save"}
    /\ IF file.state = "unreadable"
       THEN /\ tpc' = [tpc EXCEPT ![t] = "idle"]
            /\ lock' = NoThread
            /\ tret' = [tret EXCEPT ![t] = [op |-> "raise", value |-> 0]]
            /\ failedSaves' = IF tpc[t] = "rc_save" THEN Append(failedSaves, tcall[t])
                              ELSE failedSaves
            /\ UNCHANGED <<file, tsnap>>
       ELSE /\ file' = [state |-> "opened", records |-> <<>>]
            /\ tsnap' = [tsnap EXCEPT ![t] = ledger]
            /\ tpc' = [tpc EXCEPT ![t] = IF tpc[t] = "rc_save" THEN "rc_dump"
                                         ELSE "cl_dump"]
            /\ UNCHANGED <<lock, tret, failedSaves>>
    /\ UNCHANGED <<ledger, now, tcall, ti, tsum, tsince, issued, cleared>>

\* _save, first half: open(storage_path, "w") empties the file, and the list
\* [asdict(c) for c in self.calls] is built; or open raises
SaveOpen(t) ==
    /\ tpc[t] \in {"rc_save", "cl_save"}
    /\ IF file.state = "unreadable"
       THEN \* open raises, _save logs the error and returns
            /\ tpc' = [tpc EXCEPT ![t] = IF tpc[t] = "rc_save" THEN "rc_unlock"
                                         ELSE "cl_unlock"]
            /\ failedSaves' = IF tpc[t] = "rc_save" THEN Append(failedSaves, tcall[t])
                              ELSE failedSaves
            /\ UNCHANGED <<file, tsnap>>
       ELSE /\ file' = [state |-> "opened", records |-> <<>>]
            /\ tsnap' = [tsnap EXCEPT ![t] = ledger]
            /\ tpc' = [tpc EXCEPT ![t] = IF tpc[t] = "rc_save" THEN "rc_dump"
                                         ELSE "cl_dump"]
            /\ UNCHANGED failedSaves
    /\ UNCHANGED <<ledger, lock, now, tcall, ti, tsum, tsince, tret, issued, cleared>>

\* _save, second half: json.dump writes the list and the file is closed
SaveDump(t) ==
    /\ tpc[t] \in {"rc_dump", "cl_dump"}
    /\ file' = [state |-> "written", records |-> tsnap[t]]
    /\ tsnap' = [tsnap EXCEPT ![t] = <<>>]
    /\ tpc' = [tpc EXCEPT ![t] = IF tpc[t] = "rc_dump" THEN "rc_unlock" ELSE "cl_unlock"]
    /\ UNCHANGED <<ledger, lock, now, tcall, ti, tsum, tsince, tret, issued, cleared, failedSaves>>

\* one step of "for call in self.calls": the next element, or the end
SummaryStep(t) ==
    /\ tpc[t] = "gs_loop"
    /\ IF ti[t] < Len(ledger)
       THEN /\ tsum' = [tsum EXCEPT ![t] = Accumulate(@, ledger[ti[t] + 1], tsince[t])]
            /\ ti' = [ti EXCEPT ![t] = @ + 1]
            /\ UNCHANGED tpc
       ELSE /\ tpc' = [tpc EXCEPT ![t] = "gs_unlock"]
            /\ UNCHANGED <<tsum, ti>>
    /\ UNCHANGED <<ledger, file, lock, now, tcall, tsnap, tsince, tret, issued, cleared, failedSaves>>

\* leaving the with block, and the return
Release(t) ==
    /\ tpc[t] \in {"rc_unlock", "gs_unlock", "cl_unlock"}
    /\ lock' = NoThread
    /\ tret' = [tret EXCEPT ![t] =
                  CASE tpc[t] = "rc_unlock" -> [op |-> "record_call", value |-> tcall[t].cost_usd]
                    [] tpc[t] = "gs_unlock" -> [op |-> "get_summary", value |-> tsum[t]]
                    [] tpc[t] = "cl_unlock" -> [op |-> "clear", value |-> 0]]
    /\ tpc' = [tpc EXCEPT ![t] = "idle"]
    /\ tcall' = [tcall EXCEPT ![t] = NoCallRecord]
    /\ tsum' = [tsum EXCEPT ![t] = CostSummary]
    /\ ti' = [ti EXCEPT ![t] = 0]
    /\ tsince' = [tsince EXCEPT ![t] = None]
    /\ UNCHANGED <<ledger, file, now, tsnap, issued, cleared, failedSaves>>

\* APICall(**c) for a dict c read from the file
FromDict(c) ==
    [timestamp |-> c["timestamp"], operation |-> c["operation"], model |-> c["model"],
     input_tokens |-> c["input_tokens"], output_tokens |-> c["output_tokens"],
     cost_usd |-> c["cost_usd"]]

\* the file is not read
load_Nothing(f) == <<>>

\* whatever records the file holds are taken, readable or not
load_AnyState(f) == [k \in 1..Len(f.records) |-> FromDict(f.records[k])]

\* _load: no file, a file json.load cannot parse (an empty or a corrupt one)
\* or a file open() refuses gives the empty list; otherwise one APICall per
\* dict of the file
load(f) ==
    IF f.state = "absent" THEN <<>>
    ELSE IF f.state \in {"opened", "corrupt", "unreadable"} THEN <<>>
    ELSE [k \in 1..Len(f.records) |-> FromDict(f.records[k])]

\* the file is damaged while no call is under way: its content is no longer
\* JSON ("corrupt"), or open() on it raises OSError for reading and for
\* writing ("unreadable"); records keeps what was written before
Damage(kind) ==
    /\ \A u \in Threads : tpc[u] = "idle"
    /\ file.state # "absent"
    /\ file' = [state |-> kind, records |-> file.records]
    /\ UNCHANGED <<ledger, lock, now, tpc, tcall, tsnap, ti, tsum, tsince, tret, issued,
                   cleared, failedSaves>>

\* open() on the file works again while no call is under way; the content is
\* what it was before, parsable or not
Repair(kind) ==
    /\ \A u \in Threads : tpc[u] = "idle"
    /\ file.state = "unreadable"
    /\ file' = [state |-> kind, records |-> file.records]
    /\ UNCHANGED <<ledger, lock, now, tpc, tcall, tsnap, ti, tsum, tsince, tret, issued,
                   cleared, failedSaves>>

\* CostTracker(storage_path) on the path of the tracker in use, by a thread
\* that is between calls: the new tracker's calls are what _load reads
NewTracker(t) ==
    /\ \A u \in Threads : tpc[u] = "idle"
    /\ ledger' = load(file)
    /\ tret' = [tret EXCEPT ![t] = [op |-> "CostTracker", value |-> Len(load(file))]]
    /\ UNCHANGED <<file, lock, now, tpc, tcall, tsnap, ti, tsum, tsince, issued, cleared, failedSaves>>

LedgerRecordCall ==
    /\ Len(issued) < MaxRecords
    /\ \E t \in Threads, a \in CallArgs : RecordCall(t, a)
    /\ UNCHANGED <<pipelineVars, retryVars, fetchVars, ingestVars, readingVars, batchVars, docIdVars>>
LedgerGetSummary ==
    /\ \E t \in Threads, since \in Sinces : GetSummary(t, since)
    /\ UNCHANGED <<pipelineVars, retryVars, fetchVars, ingestVars, readingVars, batchVars, docIdVars>>
LedgerClear ==
    /\ cleared < MaxClears
    /\ (\E t \in Threads : Clear(t))
    /\ UNCHANGED <<pipelineVars, retryVars, fetchVars, ingestVars, readingVars, batchVars, docIdVars>>
LedgerAcquire == (\E t \in Threads : Acquire(t)) /\ UNCHANGED <<pipelineVars, retryVars, fetchVars, ingestVars, readingVars, batchVars, docIdVars>>
LedgerAppend == (\E t \in Threads : Append_(t)) /\ UNCHANGED <<pipelineVars, retryVars, fetchVars, ingestVars, readingVars, batchVars, docIdVars>>
LedgerClearCalls == (\E t \in Threads : ClearCalls(t)) /\ UNCHANGED <<pipelineVars, retryVars, fetchVars, ingestVars, readingVars, batchVars, docIdVars>>
LedgerSaveOpen == (\E t \in Threads : SaveOpen(t)) /\ UNCHANGED <<pipelineVars, retryVars, fetchVars, ingestVars, readingVars, batchVars, docIdVars>>
LedgerSaveDump == (\E t \in Threads : SaveDump(t)) /\ UNCHANGED <<pipelineVars, retryVars, fetchVars, ingestVars, readingVars, batchVars, docIdVars>>
LedgerSummaryStep == (\E t \in Threads : SummaryStep(t)) /\ UNCHANGED <<pipelineVars, retryVars, fetchVars, ingestVars, readingVars, batchVars, docIdVars>>
LedgerRelease == (\E t \in Threads : Release(t)) /\ UNCHANGED <<pipelineVars, retryVars, fetchVars, ingestVars, readingVars, batchVars, docIdVars>>

-----------------------------------------------------------------------------
(* The pipeline in one process: fetches and ingest runs, one after another *)

\* the limit argument: None (the default), or 0..MaxLimit
-----------------------------------------------------------------------------
(* _generate_doc_id: hashlib.md5(link.encode()).hexdigest(), computed round by
   round. A 32-bit word is a sequence of 32 bits, the least significant first. *)

\* the printable ASCII characters, from code 32 on (the double quote, the
\* backslash and the backtick, which no link here contains, are spelled out)
Ascii ==
  <<
     " ", "!", "(quote)", "#", "$", "%", "&", "'", "(", ")", "*", "+",
     ",", "-", ".", "/", "0", "1", "2", "3", "4", "5", "6", "7",
     "8", "9", ":", ";", "<", "=", ">", "?", "@", "A", "B", "C",
     "D", "E", "F", "G", "H", "I", "J", "K", "L", "M", "N", "O",
     "P", "Q", "R", "S", "T", "U", "V", "W", "X", "Y", "Z", "[",
     "(backslash)", "]", "^", "_", "(backtick)", "a", "b", "c", "d", "e", "f", "g",
     "h", "i", "j", "k", "l", "m", "n", "o", "p", "q", "r", "s",
     "t", "u", "v", "w", "x", "y", "z", "{", "|", "}", "~"
  >>

\* str.encode() of an ASCII string: the code of each character
Ord(c) == 31 + (CHOOSE k \in 1..Len(Ascii) : Ascii[k] = c)
Encode(link) == [k \in 1..Len(link) |-> Ord(link[k])]

\* the word with the 16-bit halves hi and lo
WordOf(hi, lo) ==
    [k \in 1..32 |-> IF k <= 16 THEN (lo \div 2^(k - 1)) % 2 ELSE (hi \div 2^(k - 17)) % 2]

WAnd(x, y) == [k \in 1..32 |-> x[k] * y[k]]
WOr(x, y) == [k \in 1..32 |-> x[k] + y[k] - x[k] * y[k]]
WXor(x, y) == [k \in 1..32 |-> (x[k] + y[k]) % 2]
WNot(x) == [k \in 1..32 |-> 1 - x[k]]
RotL(x, c) == [k \in 1..32 |-> x[((k - 1 - c) % 32) + 1]]

\* x + y modulo 2^32, bit by bit with the carry
RECURSIVE AddFrom(_, _, _, _)
AddFrom(x, y, k, carry) ==
    IF k > 32 THEN <<>>
    ELSE <<(x[k] + y[k] + carry) % 2>> \o AddFrom(x, y, k + 1, (x[k] + y[k] + carry) \div 2)
WAdd(x, y) == AddFrom(x, y, 1, 0)

\* MD5's sine table, as 16-bit halves
MD5K ==
  <<
     <<55146, 42104>>, <<59591, 46934>>, <<9248, 28891>>, <<49597, 52974>>,
     <<62844, 4015>>, <<18311, 50730>>, <<43056, 17939>>, <<64838, 38145>>,
     <<27008, 39128>>, <<35652, 63407>>, <<65535, 23473>>, <<35164, 55230>>,
     <<27536, 4386>>, <<64920, 29075>>, <<42617, 17294>>, <<18868, 2081>>,
     <<63006, 9570>>, <<49216, 45888>>, <<9822, 23121>>, <<59830, 51114>>,
     <<54831, 4189>>, <<580, 5203>>, <<55457, 59009>>, <<59347, 64456>>,
     <<8673, 52710>>, <<49975, 2006>>, <<62677, 3463>>, <<17754, 5357>>,
     <<43491, 59653>>, <<64751, 41976>>, <<26479, 729>>, <<36138, 19594>>,
     <<65530, 14658>>, <<34673, 63105>>, <<28061, 24866>>, <<64997, 14348>>,
     <<42174, 59972>>, <<19422, 53161>>, <<63163, 19296>>, <<48831, 48240>>,
     <<10395, 32454>>, <<60065, 10234>>, <<54511, 12421>>, <<1160, 7429>>,
     <<55764, 53305>>, <<59099, 39397>>, <<8098, 31992>>, <<50348, 22117>>,
     <<62505, 8772>>, <<17194, 65431>>, <<43924, 9127>>, <<64659, 41017>>,
     <<25947, 22979>>, <<36620, 52370>>, <<65519, 62589>>, <<34180, 24017>>,
     <<28584, 32335>>, <<65068, 59104>>, <<41729, 17172>>, <<19976, 4513>>,
     <<63315, 32386>>, <<48442, 62005>>, <<10967, 53947>>, <<60294, 54161>>
  >>

\* MD5's per-round shift amounts
MD5S ==
  <<
     7, 12, 17, 22, 7, 12, 17, 22, 7, 12, 17, 22, 7, 12, 17, 22,
     5, 9, 14, 20, 5, 9, 14, 20, 5, 9, 14, 20, 5, 9, 14, 20,
     4, 11, 16, 23, 4, 11, 16, 23, 4, 11, 16, 23, 4, 11, 16, 23,
     6, 10, 15, 21, 6, 10, 15, 21, 6, 10, 15, 21, 6, 10, 15, 21
  >>

\* MD5's initial state A, B, C, D
MD5Init == <<WordOf(26437, 8961), WordOf(61389, 43913), WordOf(39098, 56574), WordOf(4146, 21622)>>

\* the padded message: 0x80, zeros up to 56 modulo 64, the length in bits as
\* eight little-endian bytes
ZerosFor(n) == (55 - n) % 64
LengthBytes(n) ==
    [k \in 1..8 |-> IF k <= 3 THEN ((8 * n) \div 2^(8 * (k - 1))) % 256 ELSE 0]
Pad(bytes) ==
    bytes \o <<128>> \o [k \in 1..ZerosFor(Len(bytes)) |-> 0] \o LengthBytes(Len(bytes))

\* word g (0..15) of block blk (0..) of a padded message, little-endian
MsgWord(msg, blk, g) ==
    [k \in 1..32 |->
        (msg[64 * blk + 4 * g + ((k - 1) \div 8) + 1] \div 2^((k - 1) % 8)) % 2]

\* the round function and the message index of round i (0..63)
RoundF(i, b, c, d) ==
    IF i < 16 THEN WOr(WAnd(b, c), WAnd(WNot(b), d))
    ELSE IF i < 32 THEN WOr(WAnd(d, b), WAnd(WNot(d), c))
    ELSE IF i < 48 THEN WXor(b, WXor(c, d))
    ELSE WXor(c, WOr(b, WNot(d)))
RoundG(i) ==
    IF i < 16 THEN i
    ELSE IF i < 32 THEN (5 * i + 1) % 16
    ELSE IF i < 48 THEN (3 * i + 5) % 16
    ELSE (7 * i) % 16

\* one round: <<A, B, C, D>> after round i on the message word m
Round(i, w, m) ==
    LET f == WAdd(WAdd(WAdd(RoundF(i, w[2], w[3], w[4]), w[1]),
                       WordOf(MD5K[i + 1][1], MD5K[i + 1][2])), m)
    IN <<w[4], WAdd(w[2], RotL(f, MD5S[i + 1])), w[2], w[3]>>

\* hexdigest: the bytes of A, B, C, D, least significant first, two lower-case
\* hex digits each
HexDigits == <<"0", "1", "2", "3", "4", "5", "6", "7", "8", "9", "a", "b", "c", "d", "e", "f">>
Nibble(x, k) == x[k] + 2 * x[k + 1] + 4 * x[k + 2] + 8 * x[k + 3]
HexOfWord(x) ==
    [k \in 1..8 |-> HexDigits[1 + Nibble(x, 8 * ((k - 1) \div 2) + (IF k % 2 = 1 THEN 5 ELSE 1))]]
HexDigest(h) == HexOfWord(h[1]) \o HexOfWord(h[2]) \o HexOfWord(h[3]) \o HexOfWord(h[4])

\* the links whose identifiers are computed: a feed link, and two links that
\* differ in one character
DocLinks ==
  <<
   <<
     "h", "t", "t", "p", ":", "/", "/", "a", ".", "i", "o", "/",
     "1"
   >>,
   <<
     "T", "E", "X", "T", "C", "O", "L", "L", "B", "Y", "f", "G",
     "i", "J", "U", "E", "T", "H", "Q", "4", "h", "A", "c", "K",
     "S", "M", "d", "5", "z", "Y", "p", "g", "q", "f", "1", "Y",
     "R", "D", "h", "k", "m", "x", "H", "k", "h", "P", "W", "p",
     "t", "r", "k", "o", "y", "z", "2", "8", "w", "n", "I", "9",
     "V", "0", "a", "H", "e", "A", "u", "a", "K", "n", "a", "k"
   >>,
   <<
     "T", "E", "X", "T", "C", "O", "L", "L", "B", "Y", "f", "G",
     "i", "J", "U", "E", "T", "H", "Q", "4", "h", "E", "c", "K",
     "S", "M", "d", "5", "z", "Y", "p", "g", "q", "f", "1", "Y",
     "R", "D", "h", "k", "m", "x", "H", "k", "h", "P", "W", "p",
     "t", "r", "k", "o", "y", "z", "2", "8", "w", "n", "I", "9",
     "V", "0", "a", "H", "e", "A", "u", "a", "K", "n", "a", "k"
   >>
  >>

NoDigest == <<>>

InitDocId ==
    md = [pc |-> "idle", link |-> 0, msg |-> <<>>, blk |-> 0, i |-> 0,
          w |-> MD5Init, h |-> MD5Init, ids |-> [k \in 1..Len(DocLinks) |-> NoDigest]]

\* _generate_doc_id(DocLinks[k]) is called: encode and pad
DocIdStart(k) ==
    /\ md.pc = "idle"
    /\ md' = [md EXCEPT !.pc = "rounds", !.link = k, !.msg = Pad(Encode(DocLinks[k])),
                        !.blk = 0, !.i = 0, !.w = MD5Init, !.h = MD5Init]
    /\ UNCHANGED <<pipelineVars, retryVars, ledgerVars, fetchVars, ingestVars, readingVars,
                   batchVars>>

\* one of the 64 rounds of a block
DocIdRound ==
    /\ md.pc = "rounds"
    /\ md.i < 64
    /\ md' = [md EXCEPT !.w = Round(md.i, md.w, MsgWord(md.msg, md.blk, RoundG(md.i))),
                        !.i = @ + 1]
    /\ UNCHANGED <<pipelineVars, retryVars, ledgerVars, fetchVars, ingestVars, readingVars,
                   batchVars>>

\* the end of a block: the block's words are added to the state
DocIdBlock ==
    /\ md.pc = "rounds"
    /\ md.i = 64
    /\ LET h == [k \in 1..4 |-> WAdd(md.h[k], md.w[k])]
       IN md' = [md EXCEPT !.h = h, !.w = h, !.i = 0, !.blk = @ + 1,
                           !.pc = IF 64 * (md.blk + 1) = Len(md.msg) THEN "digest"
                                  ELSE "rounds"]
    /\ UNCHANGED <<pipelineVars, retryVars, ledgerVars, fetchVars, ingestVars, readingVars,
                   batchVars>>

\* hexdigest() is returned
DocIdReturn ==
    /\ md.pc = "digest"
    /\ md' = [md EXCEPT !.pc = "idle", !.ids[md.link] = HexDigest(md.h)]
    /\ UNCHANGED <<pipelineVars, retryVars, ledgerVars, fetchVars, ingestVars, readingVars,
                   batchVars>>

-----------------------------------------------------------------------------
Limits == {None} \cup {Some(n) : n \in 0..MaxLimit}

NoCall == [op |-> "none"]

InitStore ==
    /\ feeds = {}
    /\ articles = {}
    /\ feedSeq = 0
    /\ articleSeq = 0
    /\ ret = NoCall

InitRuns ==
    /\ rpc = [r \in Runs |-> "idle"]
    /\ rsel = [r \in Runs |-> <<>>]
    /\ rlimit = [r \in Runs |-> None]
    /\ ri = [r \in Runs |-> 1]
    /\ rres = [r \in Runs |-> NoResult]
    /\ results = [r \in Runs |-> <<>>]
    /\ delivered = [r \in Runs |-> <<>>]
    /\ prevFailed = [r \in Runs |-> {}]
    /\ rerun = [r \in Runs |-> FALSE]
    /\ inserted = [d \in {generate_doc_id(l) : l \in Links \cup CollidingLinks} |-> 0]
    /\ marks = [id \in 1..(MaxRowId + 1) |-> 0]
    /\ runsStarted = 0

\* what the two feeds list while the pipeline runs: each feed grows over time,
\* both list l2, and u1 lists an entry without a link
Listing(url) ==
    IF url = "u1"
    THEN <<Entry("l1", "A", "body", Some(2)), Entry("l2", "B", Null, Some(1)),
           Entry(Null, "A", "body", None)>>
    ELSE <<Entry("l2", "B", Null, Some(1)), Entry("l3", Null, "", None),
           Entry("l3", Null, "", None)>>

\* the parse results of a fetch: a fatal parse failure, or the first k entries
FeedStates(url) ==
    {[raises |-> FALSE, bozo |-> TRUE, bozo_exception |-> x,
      title |-> Null, entries |-> <<>>] : x \in BozoErrors}
    \cup
    {[raises |-> FALSE, bozo |-> FALSE, bozo_exception |-> Null,
      title |-> "Feed", entries |-> Take(Listing(url), k)] : k \in 1..MaxEntries}

Fetch ==
    /\ \E url \in Urls : \E parse \in FeedStates(url) :
          fetch_and_store_feed(url, MaxEntries, parse)
    /\ UNCHANGED <<retryVars, ledgerVars, fetchVars, ingestVars, readingVars, batchVars, docIdVars>>
StartRun ==
    /\ \E limit \in Limits : NoRunActive /\ IngestStart("r1", limit)
    /\ UNCHANGED <<retryVars, ledgerVars, fetchVars, ingestVars, readingVars, batchVars, docIdVars>>
Insert ==
    /\ \E outcome \in EngineOutcomes : IngestArticle("r1", outcome)
    /\ UNCHANGED <<retryVars, ledgerVars, fetchVars, ingestVars, readingVars, batchVars, docIdVars>>
Mark == MarkIngested("r1") /\ UNCHANGED <<retryVars, ledgerVars, fetchVars, ingestVars, readingVars, batchVars, docIdVars>>
Yield == YieldResult("r1") /\ UNCHANGED <<retryVars, ledgerVars, fetchVars, ingestVars, readingVars, batchVars, docIdVars>>
Deliver == DeliverResult("r1") /\ UNCHANGED <<retryVars, ledgerVars, fetchVars, ingestVars, readingVars, batchVars, docIdVars>>
Stop == ProcessStops("r1") /\ UNCHANGED <<retryVars, ledgerVars, fetchVars, ingestVars, readingVars, batchVars, docIdVars>>

Init == InitStore /\ InitRuns /\ InitRetry /\ InitLedger /\ InitFetch /\ InitIngest /\ InitReading /\ InitBatch
        /\ InitDocId
Next == Fetch \/ StartRun \/ Insert \/ Mark \/ Yield \/ Deliver
Spec == Init /\ [][Next]_vars

\* the same, and the process may stop at any point of a run
NextCrash == Fetch \/ StartRun \/ Insert \/ Mark \/ Yield \/ Deliver \/ Stop
SpecCrash == Init /\ [][NextCrash]_vars

-----------------------------------------------------------------------------
(* Fetches by two workers that may overlap *)

\* a feed the parser reports a problem for and still yields entries
PartialStates(url) ==
    {[raises |-> FALSE, bozo |-> TRUE, bozo_exception |-> x,
      title |-> "Feed", entries |-> Take(Listing(url), k)] :
        x \in BozoErrors, k \in 1..MaxEntries}

\* a feed whose channel carries no title: feed.feed.get("title") is None
UntitledStates(url) ==
    {[raises |-> FALSE, bozo |-> FALSE, bozo_exception |-> Null,
      title |-> Null, entries |-> Take(Listing(url), 1)]}

FetchInputs(url) == FeedStates(url) \cup PartialStates(url) \cup UntitledStates(url)

WorkerFetchFeed ==
    /\ fhist.calls < MaxFetches
    /\ \E w \in Workers, url \in Urls : \E parse \in FetchInputs(url) :
          FetchFeed(w, url, MaxEntries, parse)
    /\ UNCHANGED <<retryVars, ledgerVars, ingestVars, readingVars, batchVars, docIdVars>>
WorkerGetFeed == (\E w \in Workers : GetFeed(w)) /\ UNCHANGED <<retryVars, ledgerVars, ingestVars, readingVars, batchVars, docIdVars>>
WorkerUpdateTitle == (\E w \in Workers : UpdateTitle(w)) /\ UNCHANGED <<retryVars, ledgerVars, ingestVars, readingVars, batchVars, docIdVars>>
WorkerCreateFeed == (\E w \in Workers : CreateFeed(w)) /\ UNCHANGED <<retryVars, ledgerVars, ingestVars, readingVars, batchVars, docIdVars>>
WorkerCheckArticle == (\E w \in Workers : CheckArticle(w)) /\ UNCHANGED <<retryVars, ledgerVars, ingestVars, readingVars, batchVars, docIdVars>>
WorkerStoreArticle == (\E w \in Workers : StoreArticle(w)) /\ UNCHANGED <<retryVars, ledgerVars, ingestVars, readingVars, batchVars, docIdVars>>
WorkerFinishFetch == (\E w \in Workers : FinishFetch(w)) /\ UNCHANGED <<retryVars, ledgerVars, ingestVars, readingVars, batchVars, docIdVars>>

NextFetch ==
    \/ WorkerFetchFeed \/ WorkerGetFeed \/ WorkerUpdateTitle \/ WorkerCreateFeed
    \/ WorkerCheckArticle \/ WorkerStoreArticle \/ WorkerFinishFetch
SpecFetch == Init /\ [][NextFetch]_vars

-----------------------------------------------------------------------------
(* The item store called directly, over several connections *)

StoreLinks == {"l1", "l2"}

\* the article data a caller passes with a link: two versions per link
Versions == {[title |-> "A", content |-> "body", pub_date |-> Some(1)],
             [title |-> "B", content |-> Null, pub_date |-> None],
             [title |-> Null, content |-> "body", pub_date |-> None]}

\* add_feed(conn, url, title); every connection sees the committed tables
AddFeed(conn, url, title) ==
    /\ LET r == add_feed(feeds, feedSeq, url, title)
       IN /\ r[2] <= MaxRowId
          /\ feeds' = r[1]
          /\ feedSeq' = r[2]
          /\ ret' = [op |-> "add_feed", url |-> url, title |-> title, value |-> Some(r[3])]
    /\ UNCHANGED <<articles, articleSeq, runVars, histVars>>

\* add_article(conn, feed_id, title, content, link, pub_date)
AddArticle(conn, feed_id, v, link) ==
    /\ LET r == add_article(articles, articleSeq, feed_id, v.title, v.content, link, v.pub_date)
       IN /\ r[2] <= MaxRowId
          /\ articles' = r[1]
          /\ articleSeq' = r[2]
          /\ ret' = [op |-> "add_article", feed_id |-> feed_id, link |-> link,
                     value |-> r[3]]
    /\ UNCHANGED <<feeds, feedSeq, runVars, histVars>>

\* update_article_lightrag_id(conn, article_id, lightrag_id)
UpdateLightragId(conn, article_id, lightrag_id) ==
    /\ articles' = update_article_lightrag_id(articles, article_id, lightrag_id)
    /\ ret' = [op |-> "update_article_lightrag_id", id |-> article_id,
               lightrag_id |-> lightrag_id, value |-> None]
    /\ UNCHANGED <<feeds, feedSeq, articleSeq, runVars, histVars>>

StoreAddFeed ==
    /\ \E conn \in Conns, url \in Urls, title \in {Null, "Feed"} : AddFeed(conn, url, title)
    /\ UNCHANGED <<retryVars, ledgerVars, fetchVars, ingestVars, readingVars, batchVars, docIdVars>>
StoreAddArticle ==
    /\ \E conn \in Conns, feed_id \in 1..2, v \in Versions, link \in StoreLinks :
          AddArticle(conn, feed_id, v, link)
    /\ UNCHANGED <<retryVars, ledgerVars, fetchVars, ingestVars, readingVars, batchVars, docIdVars>>
StoreUpdateLightragId ==
    /\ \E conn \in Conns, id \in 1..MaxRowId, link \in StoreLinks :
          UpdateLightragId(conn, id, generate_doc_id(link))
    /\ UNCHANGED <<retryVars, ledgerVars, fetchVars, ingestVars, readingVars, batchVars, docIdVars>>

\* update_feed_last_fetched(conn, feed_id)
UpdateFeedLastFetched(conn, feed_id) ==
    /\ feeds' = update_feed_last_fetched(feeds, feed_id)
    /\ ret' = [op |-> "update_feed_last_fetched", id |-> feed_id, value |-> None]
    /\ UNCHANGED <<articles, feedSeq, articleSeq, runVars, histVars>>

\* deactivate_feed(conn, feed_id)
DeactivateFeed(conn, feed_id) ==
    /\ feeds' = deactivate_feed(feeds, feed_id)
    /\ ret' = [op |-> "deactivate_feed", id |-> feed_id, value |-> None]
    /\ UNCHANGED <<articles, feedSeq, articleSeq, runVars, histVars>>

StoreUpdateFeedLastFetched ==
    /\ \E conn \in Conns, id \in 1..MaxRowId : UpdateFeedLastFetched(conn, id)
    /\ UNCHANGED <<retryVars, ledgerVars, fetchVars, ingestVars, readingVars, batchVars, docIdVars>>
StoreDeactivateFeed ==
    /\ \E conn \in Conns, id \in 1..MaxRowId : DeactivateFeed(conn, id)
    /\ UNCHANGED <<retryVars, ledgerVars, fetchVars, ingestVars, readingVars, batchVars, docIdVars>>

\* add_reading_history(conn, article_id, action)
AddReadingHistory(conn, article_id, action) ==
    /\ historySeq < MaxHistory
    /\ LET r == add_reading_history(history, historySeq, article_id, action)
       IN /\ history' = r[1]
          /\ historySeq' = r[2]
          /\ ret' = [op |-> "add_reading_history", id |-> article_id, value |-> Some(r[3])]
    /\ UNCHANGED <<feeds, articles, feedSeq, articleSeq, runVars, histVars>>

\* delete_feed(conn, feed_id)
DeleteFeed(conn, feed_id) ==
    /\ LET r == delete_feed(feeds, articles, history, feed_id)
       IN /\ feeds' = r[1]
          /\ articles' = r[2]
          /\ history' = r[3]
    /\ ret' = [op |-> "delete_feed", id |-> feed_id, value |-> None]
    /\ UNCHANGED <<feedSeq, articleSeq, historySeq, runVars, histVars>>

StoreAddReadingHistory ==
    /\ \E conn \in Conns, id \in 1..2 : AddReadingHistory(conn, id, "read")
    /\ UNCHANGED <<retryVars, ledgerVars, fetchVars, ingestVars, batchVars, docIdVars>>
StoreDeleteFeed ==
    /\ \E conn \in Conns, id \in 1..2 : DeleteFeed(conn, id)
    /\ UNCHANGED <<retryVars, ledgerVars, fetchVars, ingestVars, batchVars, docIdVars>>

NextStore == StoreAddFeed \/ StoreAddArticle \/ StoreUpdateLightragId
SpecStore == Init /\ [][NextStore]_vars

\* feeds with their articles and reading history, and delete_feed
\* the callers of this part give every feed and every article a title
TitledAddFeed ==
    /\ \E conn \in Conns, url \in Urls : AddFeed(conn, url, "Feed")
    /\ UNCHANGED <<retryVars, ledgerVars, fetchVars, ingestVars, readingVars, batchVars, docIdVars>>
TitledAddArticle ==
    /\ \E conn \in Conns, feed_id \in 1..2, link \in StoreLinks :
          AddArticle(conn, feed_id, [title |-> "A", content |-> "body", pub_date |-> Some(1)], link)
    /\ UNCHANGED <<retryVars, ledgerVars, fetchVars, ingestVars, readingVars, batchVars, docIdVars>>

NextDelete == TitledAddFeed \/ TitledAddArticle \/ StoreAddReadingHistory \/ StoreDeleteFeed
SpecDelete == Init /\ [][NextDelete]_vars

\* feedparser.parse raises
RaisingStates == {[raises |-> TRUE, bozo |-> FALSE, bozo_exception |-> Null,
                   title |-> Null, entries |-> <<>>]}

\* the parse results of a fetch in a batch: feedparser raises, a fatal parse
\* failure, or the whole listing
BatchStates(url) ==
    {x \in FeedStates(url) : x.bozo \/ Len(x.entries) = MaxEntries} \cup RaisingStates

\* the feeds file: none given, or one that lists u2
FeedsFiles == {None, Some(<<"u2">>)}

\* a third feed, u3, lists what u2 lists
BatchUrls == Urls \cup {"u3"}
BatchAddFeed ==
    /\ \E conn \in Conns, url \in BatchUrls : AddFeed(conn, url, "Feed")
    /\ UNCHANGED <<retryVars, ledgerVars, fetchVars, ingestVars, readingVars, batchVars, docIdVars>>

FetchAllStart ==
    /\ batch.n < MaxBatches
    /\ \E feeds_file \in FeedsFiles : BatchStart(feeds_file)
    /\ UNCHANGED <<retryVars, ledgerVars, fetchVars, ingestVars, readingVars, docIdVars>>
FetchAllNext ==
    /\ batch.pc = "running" /\ batch.i <= Len(batch.feeds)
    /\ \E parse \in BatchStates(batch.feeds[batch.i]) : BatchFetch(parse)
    /\ UNCHANGED <<retryVars, ledgerVars, fetchVars, ingestVars, readingVars, docIdVars>>
FetchAllFinish ==
    /\ BatchFinish
    /\ UNCHANGED <<retryVars, ledgerVars, fetchVars, ingestVars, readingVars, docIdVars>>

\* batches of fetches over feeds that are added and deactivated meanwhile
NextBatch ==
    \/ BatchAddFeed \/ StoreDeactivateFeed
    \/ FetchAllStart \/ FetchAllNext \/ FetchAllFinish
SpecBatch == Init /\ [][NextBatch]_vars

\* the feeds table on its own
NextFeeds == StoreAddFeed \/ StoreUpdateFeedLastFetched \/ StoreDeactivateFeed
SpecFeeds == Init /\ [][NextFeeds]_vars

-----------------------------------------------------------------------------
(* C1: after any sequence of add_article calls no two stored articles have
   the same link; an add_article whose link is already stored returns None
   and leaves the stored article (feed_id, title, content, lightrag_id)
   unchanged. *)
UniqueLinks == \A a, b \in articles : a.link = b.link => a = b

C1_DuplicateStep ==
    (ret'.op = "add_article" /\ article_exists(articles, ret'.link))
        => (ret'.value = None /\ articles' = articles)

C1_Theorem == []UniqueLinks /\ [][C1_DuplicateStep]_vars

\* a duplicate add_article has returned None for an article that carries a
\* lightrag_id
C1_Witness ==
    /\ ret.op = "add_article"
    /\ ret.value = None
    /\ \E a \in articles : a.link = ret.link /\ a.lightrag_id # Null

-----------------------------------------------------------------------------
SelIds(r) == {rsel[r][k].id : k \in 1..Len(rsel[r])}
PendingIds == {a.id : a \in Pending(articles)}
CurrentId(r) == rsel[r][ri[r]].id
NoLimit(r) == rlimit[r] = None \/ rlimit[r][1] = 0

(* C2: across sequential ingest runs whose engine inserts may fail or
   succeed, the lightrag_id of an article is written at most once: it goes
   from NULL to non-NULL at most once and no later run writes it again. *)
C2_Theorem == \A id \in DOMAIN marks : marks[id] <= 1

\* a second run has finished work on another article while an article marked
\* by the first run is in the store
C2_Witness ==
    /\ runsStarted = 2
    /\ rpc["r1"] = "done"
    /\ Len(results["r1"]) >= 1
    /\ \E a \in articles : a.lightrag_id # Null /\ marks[a.id] = 1 /\ a.id \notin SelIds("r1")

(* C3: across any sequence of fetches and ingest runs of one process that
   does not stop, the engine insert succeeds at most once per link, and no
   article with non-NULL lightrag_id is selected or about to be passed to the
   engine. *)
C3_Theorem ==
    /\ \A d \in DOMAIN inserted : inserted[d] <= 1
    /\ \A r \in Runs : rpc[r] = "insert" =>
          \A k \in ri[r]..Len(rsel[r]) :
              \A a \in ArticleById(articles, rsel[r][k].id) : a.lightrag_id = Null

\* a later run passes an article to the engine while the store holds an
\* article ingested by an earlier run
C3_Witness ==
    /\ runsStarted = 2
    /\ rpc["r1"] = "insert"
    /\ \E a \in articles : a.lightrag_id # Null /\ inserted[a.lightrag_id] = 1

\* a failure result carries the error text and no id, and its article is NULL
FailureKept(res) ==
    ~res.success =>
        /\ res.error \in EngineErrors
        /\ res.lightrag_id = Null
        /\ \A a \in ArticleById(articles, res.article_id) : a.lightrag_id = Null

C4_InRun ==
    \A r \in Runs :
        /\ \A k \in 1..Len(results[r]) :
              FailureKept(results[r][k]) /\ results[r][k].article_id = rsel[r][k].id
        /\ rpc[r] = "yield" => FailureKept(rres[r])
        /\ rpc[r] = "done" => Len(results[r]) = Len(rsel[r])

\* the limit cut the selection short
LimitCut(r) == ~NoLimit(r) /\ Len(rsel[r]) = rlimit[r][1]

(* C4 as claimed: a failed article keeps lightrag_id NULL, a failure result
   is produced for it, every remaining selected article is still attempted,
   and the failed article is selected again by the next run. *)
C4_Original ==
    /\ C4_InRun
    /\ \A r \in Runs : (RunActive(r) \/ rpc[r] = "done") => prevFailed[r] \subseteq SelIds(r)

(* C4 as amended: ... and the failed article is still pending when the next
   run starts; that run selects it unless its limit cuts the selection short
   (a run without a limit always selects it). *)
C4_Theorem ==
    /\ C4_InRun
    /\ \A r \in Runs : (RunActive(r) \/ rpc[r] = "done") =>
          /\ NoLimit(r) => prevFailed[r] \subseteq SelIds(r)
          /\ \A id \in prevFailed[r] : id \in SelIds(r) \/ LimitCut(r)
          /\ (rpc[r] = "insert" /\ ri[r] = 1) => prevFailed[r] \subseteq PendingIds

\* a run in which the first article failed and a later one succeeded has been
\* followed by a run that selected the failed article again
C4_Witness ==
    /\ runsStarted = 2
    /\ rpc["r1"] = "done"
    /\ prevFailed["r1"] # {}
    /\ prevFailed["r1"] \subseteq SelIds("r1")
    /\ Len(results["r1"]) >= 2
    /\ ~results["r1"][1].success
    /\ results["r1"][2].success

\* articles whose engine insert succeeded in the current run of r
OkIds(r) ==
    {results[r][k].article_id : k \in {j \in 1..Len(results[r]) : results[r][j].success}}
    \cup
    (IF rpc[r] \in {"mark", "yield"} /\ rres[r].success
     THEN {CurrentId(r)} ELSE {})

\* the article in flight: inserted by the engine, not yet marked
InFlight(r) == IF rpc[r] = "mark" THEN {CurrentId(r)} ELSE {}

Min(a, b) == IF a <= b THEN a ELSE b

\* what a stop leaves behind: every marked article was inserted by the engine,
\* and of the articles inserted in the run only the one in flight is unmarked
C5_StoreAtStop ==
    /\ \A a \in articles : a.lightrag_id # Null => inserted[a.lightrag_id] >= 1
    /\ \A r \in Runs : (OkIds(r) \cap PendingIds) \subseteq InFlight(r)

(* C5 as claimed: at every point of an ingest run where the process may stop
   (the store it leaves is the store of that point), every article with
   non-NULL lightrag_id had a successful engine insert, every article whose
   insert succeeded in the run is marked except at most the one in flight,
   and a rerun selects exactly the articles still NULL. *)
C5_Original ==
    /\ C5_StoreAtStop
    /\ \A r \in Runs : (rpc[r] = "insert" /\ ri[r] = 1) => SelIds(r) = PendingIds

(* C5 as amended: ... and a rerun selects only articles still NULL: all of
   them when it has no limit, and the first limit of them otherwise. *)
C5_Theorem ==
    /\ C5_StoreAtStop
    /\ \A r \in Runs :
          (rpc[r] = "insert" /\ ri[r] = 1) =>
                /\ SelIds(r) \subseteq PendingIds
                /\ NoLimit(r) => SelIds(r) = PendingIds
                /\ ~NoLimit(r) => Len(rsel[r]) = Min(rlimit[r][1], Cardinality(PendingIds))

\* a rerun after a stop has selected the article that was in flight: the
\* engine has it, the store does not
C5_Witness ==
    /\ rerun["r1"]
    /\ rpc["r1"] = "insert"
    /\ ri["r1"] = 1
    /\ \E a \in Pending(articles) :
          inserted[generate_doc_id(a.link)] >= 1 /\ a.id \in SelIds("r1")

-----------------------------------------------------------------------------
(* The retry policy on its own *)
NextRetry == WrapperAttempt \/ WrapperInvoke
SpecRetry == Init /\ [][NextRetry]_vars

Finished == wpc \in {"returned", "raised"}
\* the raised messages that contain "rate limit", "timeout", "503" or "429"
\* when case is ignored
RetryableMessages == {<<"R","a","t","e"," ","L","i","m","i","t">>,
                      <<"T","I","M","E","O","U","T">>,
                      <<"H","T","T","P"," ","5","0","3">>,
                      <<"4","2","9">>}
IsRetryableError(o) == o.kind = "raise" /\ o.payload \in RetryableMessages
AllRetryable(cs) == \A k \in 1..Len(cs) : IsRetryableError(cs[k])
Front(cs) == SubSeq(cs, 1, Len(cs) - 1)

(* C6: a wrapped function that raises a retryable error on every call is
   called exactly 3 times, and the wrapper then raises LLMError with the last
   error's message. *)
C6_Theorem ==
    (Finished /\ AllRetryable(calls)) =>
        /\ Len(calls) = 3
        /\ wpc = "raised"
        /\ wresult = [kind |-> "LLMError", payload |-> calls[3].payload]

\* three retryable failures, the first one matched only case-insensitively
C6_Witness ==
    /\ wpc = "raised"
    /\ Len(calls) = 3
    /\ AllRetryable(calls)
    /\ calls[1].payload = <<"R","a","t","e"," ","L","i","m","i","t">>
    /\ calls[3].payload = <<"4","2","9">>

(* C7: a wrapped function that raises a retryable error on its first k calls
   (k = 1 or 2) and then returns a value is called exactly k+1 times, and the
   wrapper returns that value. *)
C7_Theorem ==
    /\ (Len(calls) \in 1..2 /\ AllRetryable(calls)) => wpc = "call"
    /\ (Len(calls) \in 2..3 /\ AllRetryable(Front(calls)) /\ calls[Len(calls)].kind = "return")
          => (wpc = "returned" /\ wresult = Returned(calls[Len(calls)].payload))

\* two retryable failures, then the value
C7_Witness ==
    /\ wpc = "returned"
    /\ Len(calls) = 3
    /\ AllRetryable(Front(calls))
    /\ calls[1].payload = <<"T","I","M","E","O","U","T">>
    /\ wresult.payload \in ReturnValues

(* C8: when the wrapped function raises a non-retryable error on any attempt,
   the wrapper makes no further call and no sleep, and raises LLMError whose
   message is the original error's message. *)
C8_Theorem ==
    \A k \in 1..Len(calls) :
        (calls[k].kind = "raise" /\ calls[k].payload \notin RetryableMessages) =>
            /\ k = Len(calls)
            /\ wpc = "raised"
            /\ wresult = [kind |-> "LLMError", payload |-> calls[k].payload]
            /\ Len(sleeps) = k - 1

\* a non-retryable error on the second attempt, raised with its own text
C8_Witness ==
    /\ wpc = "raised"
    /\ Len(calls) = 2
    /\ calls[2].payload = <<"A","u","t","h"," ","f","a","i","l","e","d">>
    /\ wresult.payload = calls[2].payload
    /\ Len(sleeps) = 1

(* C29: with retryable failures, the delay slept before attempt n+1 is
   1.0 * 2^(n-1) seconds (1 s after the first failure, 2 s after the second),
   exactly one sleep happens between two consecutive attempts, and no sleep
   happens after the third failed attempt or after a success. *)
BackoffDelays == <<1, 2>>
C29_Delays ==
    /\ Len(sleeps) <= Len(BackoffDelays)
    /\ sleeps = SubSeq(BackoffDelays, 1, Len(sleeps))
    /\ wpc = "call" => Len(sleeps) = Len(calls)
    /\ Finished => Len(sleeps) = Len(calls) - 1
\* a sleep follows a retryable failure of the first or second attempt only,
\* one sleep for one failure, and the next attempt follows it
C29_SleepStep ==
    /\ Len(sleeps') > Len(sleeps) =>
          /\ sleeps' = Append(sleeps, sleeps'[Len(sleeps')])
          /\ calls' = Append(calls, calls'[Len(calls')])
          /\ IsRetryableError(calls'[Len(calls')])
          /\ Len(calls') < max_retries
          /\ wpc' = "call"
    /\ (Len(calls') > Len(calls) /\ (calls'[Len(calls')].kind = "return" \/ Len(calls') = max_retries))
          => sleeps' = sleeps
C29_Theorem == []C29_Delays /\ [][C29_SleepStep]_vars

\* three retryable failures: the wrapper slept 1 s and 2 s, and not a third time
C29_Witness ==
    /\ wpc = "raised"
    /\ Len(calls) = 3
    /\ AllRetryable(calls)
    /\ sleeps = <<1, 2>>

-----------------------------------------------------------------------------
(* The blocking and the suspending wrapper, each called on its own *)
NextWrappers == WrapperAttempt \/ WrapperInvoke \/ AsyncWrapperAttempt \/ AsyncWrapperInvoke
SpecWrappers == Init /\ [][NextWrappers]_vars

(* C30: handle_api_error and handle_api_error_async are behaviourally
   identical: for every sequence of outcomes of the wrapped call both make the
   same number of attempts, request the same sequence of delays, and end with
   the same returned value or the same LLMError message. *)
C30_Theorem ==
    aw.calls = calls =>
        /\ aw.pc = wpc
        /\ aw.attempt = attempt
        /\ aw.sleeps = sleeps
        /\ aw.result = wresult

\* both wrappers were given two retryable failures and then an error that is
\* not retried: three attempts, delays 1 and 2, the same LLMError
C30_Witness ==
    /\ aw.calls = calls
    /\ Len(calls) = 3
    /\ AllRetryable(Front(calls))
    /\ calls[3] = Raised(<<"A","u","t","h"," ","f","a","i","l","e","d">>)
    /\ aw.pc = "raised"
    /\ aw.sleeps = <<1, 2>>
    /\ aw.result = RaiseLLMError(calls[3].payload)

-----------------------------------------------------------------------------
(* The cost ledger used by several threads *)
NextLedger ==
    \/ LedgerRecordCall \/ LedgerGetSummary \/ LedgerClear \/ LedgerAcquire
    \/ LedgerAppend \/ LedgerClearCalls \/ LedgerSaveOpen \/ LedgerSaveDump
    \/ LedgerSummaryStep \/ LedgerRelease
SpecLedger == Init /\ [][NextLedger]_vars

RECURSIVE Count(_, _)
Count(s, x) == IF s = <<>> THEN 0 ELSE (IF Head(s) = x THEN 1 ELSE 0) + Count(Tail(s), x)
SamePerCall(s1, s2) ==
    /\ Len(s1) = Len(s2)
    /\ \A k \in 1..Len(s1) : Count(s1, s1[k]) = Count(s2, s1[k])

AllIdle == \A t \in Threads : tpc[t] = "idle"

(* C9: when threads call record_call concurrently, under every interleaving
   the in-memory sequence ends with exactly one record per call, and once all
   calls have returned the backing file holds exactly those records. *)
C9_Theorem ==
    (AllIdle /\ cleared = 0) =>
        /\ SamePerCall(ledger, issued)
        /\ (issued # <<>> => file = [state |-> "written", records |-> ledger])

\* two record_call calls overlapped: the call made second was appended first
C9_Witness ==
    /\ AllIdle
    /\ cleared = 0
    /\ Len(ledger) = 2
    /\ ledger[1].timestamp > ledger[2].timestamp

RECURSIVE Summarize(_, _, _)
Summarize(summary, cs, since) ==
    IF cs = <<>> THEN summary
    ELSE Summarize(Accumulate(summary, Head(cs), since), Tail(cs), since)

(* C10: a get_summary call running concurrently with record_call and clear
   calls returns totals that all describe one ledger state: the state at the
   point where its loop ends, which lies between its start and its return. *)
C10_Theorem ==
    \A t \in Threads :
        /\ tpc[t] = "gs_unlock" => tsum[t] = Summarize(CostSummary, ledger, tsince[t])
        /\ tpc[t] = "gs_loop" =>
              tsum[t] = Summarize(CostSummary, SubSeq(ledger, 1, ti[t]), tsince[t])

\* a summary of the one-record ledger ended while another thread waits to append
C10_Witness ==
    \E t, u \in Threads :
        /\ tpc[t] = "gs_unlock"
        /\ tsum[t].total_calls = 1
        /\ Len(ledger) = 1
        /\ tpc[u] = "rc_lock"

-----------------------------------------------------------------------------
(* The cost ledger used by one thread, call after call *)
TrackerRecordCall ==
    /\ Len(issued) < MaxCalls
    /\ \E a \in CallArgs : RecordCall("t1", a)
    /\ UNCHANGED <<pipelineVars, retryVars, fetchVars, ingestVars, readingVars, batchVars, docIdVars>>
TrackerGetSummary ==
    /\ \E since \in Sinces : GetSummary("t1", since)
    /\ UNCHANGED <<pipelineVars, retryVars, fetchVars, ingestVars, readingVars, batchVars, docIdVars>>
TrackerClear ==
    /\ cleared < MaxClears
    /\ Clear("t1")
    /\ UNCHANGED <<pipelineVars, retryVars, fetchVars, ingestVars, readingVars, batchVars, docIdVars>>
TrackerAcquire == Acquire("t1") /\ UNCHANGED <<pipelineVars, retryVars, fetchVars, ingestVars, readingVars, batchVars, docIdVars>>
TrackerAppend == Append_("t1") /\ UNCHANGED <<pipelineVars, retryVars, fetchVars, ingestVars, readingVars, batchVars, docIdVars>>
TrackerClearCalls == ClearCalls("t1") /\ UNCHANGED <<pipelineVars, retryVars, fetchVars, ingestVars, readingVars, batchVars, docIdVars>>
TrackerSaveOpen == SaveOpen("t1") /\ UNCHANGED <<pipelineVars, retryVars, fetchVars, ingestVars, readingVars, batchVars, docIdVars>>
TrackerSaveDump == SaveDump("t1") /\ UNCHANGED <<pipelineVars, retryVars, fetchVars, ingestVars, readingVars, batchVars, docIdVars>>
TrackerSummaryStep == SummaryStep("t1") /\ UNCHANGED <<pipelineVars, retryVars, fetchVars, ingestVars, readingVars, batchVars, docIdVars>>
TrackerRelease == Release("t1") /\ UNCHANGED <<pipelineVars, retryVars, fetchVars, ingestVars, readingVars, batchVars, docIdVars>>
TrackerNew == NewTracker("t1") /\ UNCHANGED <<pipelineVars, retryVars, fetchVars, ingestVars, readingVars, batchVars, docIdVars>>

NextTracker ==
    \/ TrackerRecordCall \/ TrackerGetSummary \/ TrackerClear \/ TrackerAcquire
    \/ TrackerAppend \/ TrackerClearCalls \/ TrackerSaveOpen \/ TrackerSaveDump
    \/ TrackerSummaryStep \/ TrackerRelease \/ TrackerNew
SpecTracker == Init /\ [][NextTracker]_vars

RECURSIVE SumField(_, _)
SumField(cs, f) == IF cs = <<>> THEN 0 ELSE Head(cs)[f] + SumField(Tail(cs), f)

\* the cost record_call returns for a call, worked out by hand from the price
\* table: 2e-05, 0.0006 and 1.5000000000000002e-05 dollars
ExpectedCost(call) ==
    CASE call.model = "text-embedding-3-small" /\ call.input_tokens = 1000 -> <<2000, 0>>
      [] call.model = "gpt-4o-mini" /\ call.input_tokens = 2000 -> <<60000, 0>>
      [] call.model = "my-model" -> <<1500, 1>>
      [] OTHER -> <<-1, 0>>

\* the costs added up as doubles, in the order recorded
RECURSIVE SumCosts(_, _)
SumCosts(acc, cs) ==
    IF cs = <<>> THEN acc ELSE SumCosts(FAdd(acc, ExpectedCost(Head(cs))), Tail(cs))

\* the values of a dict added up as doubles, in every order of the keys
RECURSIVE DictSums(_, _, _)
DictSums(d, S, acc) ==
    IF S = {} THEN {acc}
    ELSE UNION {DictSums(d, S \ {k}, FAdd(acc, d[k])) : k \in S}

\* the values of a dict added up as amounts, in units of 10^-8 dollars
RECURSIVE DictAmount(_, _)
DictAmount(d, S) ==
    IF S = {} THEN 0
    ELSE LET k == CHOOSE x \in S : TRUE IN d[k][1] + DictAmount(d, S \ {k})

Unfiltered(t) == tpc[t] = "gs_unlock" /\ tsince[t] = None

C11_Counts ==
    /\ \A t \in Threads :
          tret[t].op = "record_call" =>
              tret[t].value \in {<<2000, 0>>, <<60000, 0>>, <<1500, 1>>}
    /\ \A t \in Threads :
          Unfiltered(t) =>
              /\ tsum[t].total_calls = Len(ledger)
              /\ tsum[t].total_input_tokens = SumField(ledger, "input_tokens")
              /\ tsum[t].total_output_tokens = SumField(ledger, "output_tokens")
              /\ tsum[t].total_cost_usd = SumCosts(FZero, ledger)

(* C11 as claimed: get_summary() with no filter returns total_calls equal to
   the number of records, the token totals equal to the sums of the recorded
   token counts, total_cost_usd equal to the sum of the costs record_call
   returned, and the by_operation values and the by_model values each sum to
   total_cost_usd. *)
C11_Original ==
    /\ C11_Counts
    /\ \A t \in Threads :
          Unfiltered(t) =>
              /\ tsum[t].total_cost_usd
                    \in DictSums(tsum[t].by_operation, DOMAIN tsum[t].by_operation, FZero)
              /\ tsum[t].total_cost_usd
                    \in DictSums(tsum[t].by_model, DOMAIN tsum[t].by_model, FZero)

(* C11 as amended: ... total_cost_usd equal to the costs record_call returned
   added in the order recorded, and the by_operation values and the by_model
   values each sum to total_cost_usd up to the rounding of the float
   additions: the amounts agree to 10^-8 dollars. *)
C11_Theorem ==
    /\ C11_Counts
    /\ \A t \in Threads :
          Unfiltered(t) =>
              /\ DictAmount(tsum[t].by_operation, DOMAIN tsum[t].by_operation)
                    = tsum[t].total_cost_usd[1]
              /\ DictAmount(tsum[t].by_model, DOMAIN tsum[t].by_model)
                    = tsum[t].total_cost_usd[1]

\* an unfiltered summary of three calls, the first and the third of one
\* operation
C11_Witness ==
    /\ Unfiltered("t1")
    /\ tsum["t1"].total_calls = 3
    /\ ledger[1].operation = ledger[3].operation
    /\ ledger[1].operation # ledger[2].operation

C12_FileIsLedger ==
    AllIdle =>
        \/ file = [state |-> "written", records |-> ledger]
        \/ file = AbsentFile /\ ledger = <<>> /\ issued = <<>> /\ cleared = 0

C12_NewTrackerKeeps ==
    (AllIdle /\ AllIdle' /\ tret'["t1"].op = "CostTracker") => ledger' = ledger

(* C12: after any sequence of record_call and clear calls on a tracker whose
   file writes succeed, the backing file holds the in-memory record sequence
   in the same order, and a new CostTracker on the same path starts with that
   sequence. *)
C12_Theorem == []C12_FileIsLedger /\ [][C12_NewTrackerKeeps]_vars

\* a new tracker has loaded the two different records written after a clear
C12_Witness ==
    /\ tret["t1"] = [op |-> "CostTracker", value |-> 2]
    /\ cleared = 1
    /\ Len(issued) = 3
    /\ Len(ledger) = 2
    /\ ledger[1].model # ledger[2].model
    /\ file.records = ledger

-----------------------------------------------------------------------------
\* once clear has emptied the list it stays empty until clear releases the
\* lock, and by then the file holds the empty list
C13_InClear ==
    \A t \in Threads :
        /\ tpc[t] \in {"cl_save", "cl_dump", "cl_unlock"} => ledger = <<>>
        /\ tpc[t] = "cl_unlock" => file = [state |-> "written", records |-> <<>>]

\* outside the critical sections memory and file agree
C13_InSync ==
    lock = NoThread =>
        \/ file = [state |-> "written", records |-> ledger]
        \/ file = AbsentFile /\ ledger = <<>>

\* the list changes only by the lock holder's append of its record or by the
\* lock holder's clear
C13_Step ==
    ledger' # ledger =>
        \E t \in Threads :
            /\ lock = t
            /\ \/ tpc[t] = "rc_append" /\ ledger' = Append(ledger, tcall[t])
               \/ tpc[t] = "cl_clear" /\ ledger' = <<>>

C13_State == C13_InClear /\ C13_InSync

(* C13: clear empties the in-memory sequence and rewrites the backing file as
   the empty sequence inside one critical section: under any interleaving
   with record_call, a record appended before clear took the lock is absent
   afterwards from memory and file, and a record appended after clear
   released it is present in both. *)
C13_Theorem == []C13_State /\ [][C13_Step]_vars

\* the record of the call made first was appended after the clear, the record
\* of the call made second before it
C13_Witness ==
    /\ AllIdle
    /\ cleared = 1
    /\ Len(issued) = 2
    /\ ledger = <<issued[1]>>
    /\ file = [state |-> "written", records |-> <<issued[1]>>]

-----------------------------------------------------------------------------
AllReturned == \A w \in Workers : fw[w].pc \in {"idle", "done"}

(* C14: after any number of fetch_and_store_feed calls for the same URL or
   for feeds with overlapping entries, one after another or overlapping, the
   store holds exactly one article per distinct link seen; a call on a feed
   whose links are all stored already reports articles_new = 0. *)
C14_Theorem ==
    /\ \A a, b \in articles : a.link = b.link => a = b
    /\ AllReturned => StoredLinks = fhist.seen
    /\ \A w \in Workers : (fw[w].pc = "done" /\ fw[w].known) => fw[w].result.articles_new = 0

\* the second of two calls for one URL found two articles and none new
C14_Witness ==
    /\ fw["w1"].pc = "done"
    /\ fw["w2"].pc = "done"
    /\ fw["w1"].feed_url = fw["w2"].feed_url
    /\ fw["w1"].result.articles_new = 2
    /\ fw["w2"].known
    /\ fw["w2"].result.articles_found = 2
    /\ fw["w2"].result.articles_new = 0

(* C15: the articles_new of a fetch_and_store_feed call equals the number of
   articles this call inserted (add_article returning an id), also when
   another call inserts the same links at the same time; so the articles_new
   of all calls sum to the number of articles added to the store, and
   articles_new <= articles_found. *)
C15_Original ==
    /\ \A w \in Workers :
          fw[w].pc = "done" =>
              /\ fw[w].result.articles_new = fw[w].added
              /\ fw[w].result.articles_new <= fw[w].result.articles_found
    /\ AllReturned => fhist.new = Cardinality(articles)

(* C16: when the parser reports a problem (bozo with an exception) and still
   yields entries, fetch_feed returns the entries with a non-null error, and
   fetch_and_store_feed stores them and returns articles_found > 0 and a
   non-null error. *)
C16_Original ==
    \A w \in Workers :
        (/\ fw[w].pc = "done"
         /\ fw[w].parse.bozo
         /\ fw[w].parse.bozo_exception # Null
         /\ fw[w].parse.entries # <<>>)
        => /\ fw[w].articles # <<>>
           /\ fw[w].error # Null
           /\ LinksOf(fw[w].articles) \subseteq StoredLinks
           /\ fw[w].result.articles_found > 0
           /\ fw[w].result.error # Null

-----------------------------------------------------------------------------
UniqueUrls == \A f, g \in feeds : f.url = g.url => f = g

C17_DuplicateStep ==
    (ret'.op = "add_feed" /\ FeedByUrl(feeds, ret'.url) # {})
        => /\ feeds' = feeds
           /\ \E f \in FeedByUrl(feeds, ret'.url) : ret'.value = Some(f.id)

(* C17: add_feed with a URL already stored returns the id of the existing
   feed, adds no row and leaves the existing feed's title, active flag and
   last_fetched unchanged; after any sequence of add_feed calls no two feeds
   share a URL. *)
C17_Theorem == []UniqueUrls /\ [][C17_DuplicateStep]_vars

\* add_feed with a title has returned the id of a stored feed that has no
\* title, is stamped and is inactive
C17_Witness ==
    /\ ret.op = "add_feed"
    /\ ret.title = "Feed"
    /\ Cardinality(feeds) = 2
    /\ \E f \in feeds :
          /\ f.url = ret.url
          /\ ret.value = Some(f.id)
          /\ f.title = Null
          /\ f.last_fetched # None
          /\ ~f.active

-----------------------------------------------------------------------------
\* the call is update_article_lightrag_id on an article that carries another
\* lightrag_id
C18_Overwrite ==
    /\ ret'.op = "update_article_lightrag_id"
    /\ \E a \in ArticleById(articles, ret'.id) :
          a.lightrag_id # Null /\ a.lightrag_id # ret'.lightrag_id

(* C18: update_article_lightrag_id on an article whose lightrag_id is already
   non-NULL, with a different value, is reported as an error and does not
   replace the stored value. *)
C18_Original == [][C18_Overwrite => (articles' = articles /\ ret'.value # None)]_vars

-----------------------------------------------------------------------------
(* ingest_article called directly on the articles of a store *)

\* what rag.ainsert can do when ingest_article is called directly
IngestOutcomes == EngineOutcomes \cup {"Rate limit exceeded"}

StoreIngestOne ==
    /\ \E article_id \in 1..2, content \in {Null, "", "body"}, link \in StoreLinks,
          outcome \in IngestOutcomes :
          IngestOne(article_id, "A", content, link, outcome)
    /\ UNCHANGED <<retryVars, ledgerVars, fetchVars, readingVars, batchVars, docIdVars>>

NextIngest == StoreAddArticle \/ StoreUpdateLightragId \/ StoreIngestOne
SpecIngest == Init /\ [][NextIngest]_vars

\* the engine errors the retry policy retries
RetryableEngineErrors == {"Rate limit exceeded"}

(* C19: ingest_article_async calls the engine's insert through the retry
   policy: a retryable error (rate limit, timeout, 429, 503) is retried, up to
   3 attempts in total, and a failure result is returned only after a
   non-retryable error or after the third failed attempt. *)
C19_Original ==
    (ing.pc = "returned" /\ ~ing.result.success) =>
        \/ ing.calls[Len(ing.calls)].outcome \notin RetryableEngineErrors
        \/ Len(ing.calls) = max_retries

C20_Result ==
    ing.pc = "returned" =>
        /\ ~ing.raised
        /\ Len(ing.calls) = 1
        /\ ing.calls[1].doc_text[6] = (IF ing.content = "body" THEN "body" ELSE "")
        /\ ing.result.article_id = ing.article_id
        /\ ing.calls[1].outcome = "ok" =>
              /\ ing.result.success
              /\ ing.result.lightrag_id \in {"md5_l1", "md5_l2"}
              /\ ing.result.lightrag_id = ing.calls[1].ids[1]
        /\ ing.calls[1].outcome # "ok" =>
              /\ ~ing.result.success
              /\ ing.result.error = ing.calls[1].outcome
              /\ ing.result.lightrag_id = Null

C20_Frame == ing' # ing => (articles' = articles /\ feeds' = feeds)

(* C20: ingest_article never raises and never writes the store: on engine
   failure it returns success=False with the error message and lightrag_id
   None, on success it returns success=True with a lightrag_id, and in both
   cases every article row is unchanged, also when content is empty or
   None. *)
C20_Theorem == []C20_Result /\ [][C20_Frame]_vars

\* a successful ingest with content None of an article the store holds
\* unmarked, next to one that is marked
C20_Witness ==
    /\ ing.pc = "returned"
    /\ ing.result.success
    /\ ing.content = Null
    /\ \E a \in articles : a.id = ing.article_id /\ a.link = ing.link /\ a.lightrag_id = Null
    /\ \E a \in articles : a.lightrag_id # Null

-----------------------------------------------------------------------------
C21_Partition ==
    get_pending_count(articles) + get_ingested_count(articles) = Cardinality(articles)

C21_MarkStep ==
    (/\ ret'.op = "update_article_lightrag_id"
     /\ \E a \in articles : a.id = ret'.id /\ a.lightrag_id = Null)
        => /\ get_pending_count(articles') = get_pending_count(articles) - 1
           /\ get_ingested_count(articles') = get_ingested_count(articles) + 1

C21_InsertStep ==
    (ret'.op = "add_article" /\ ret'.value # None)
        => /\ get_pending_count(articles') = get_pending_count(articles) + 1
           /\ get_ingested_count(articles') = get_ingested_count(articles)

(* C21: in every reachable store state get_pending_count + get_ingested_count
   equals the number of articles; marking one pending article submitted lowers
   get_pending_count by exactly 1 and raises get_ingested_count by exactly 1,
   and inserting a new article raises get_pending_count by exactly 1. *)
C21_Theorem == []C21_Partition /\ [][C21_MarkStep /\ C21_InsertStep]_vars

\* two articles, one of them just marked: one is pending, one is ingested
C21_Witness ==
    /\ ret.op = "update_article_lightrag_id"
    /\ \E a \in articles : a.id = ret.id /\ a.lightrag_id = ret.lightrag_id
    /\ Cardinality(articles) = 2
    /\ get_pending_count(articles) = 1
    /\ get_ingested_count(articles) = 1

-----------------------------------------------------------------------------
\* the ids of the articles of feed f
ArticleIdsOf(as, f) == {a.id : a \in {x \in as : x.feed_id = f}}

C22_Gone(f) ==
    /\ \A x \in feeds' : x.id # f
    /\ \A a \in articles' : a.feed_id # f
    /\ \A h \in history' : h.article_id \notin ArticleIdsOf(articles, f)

C22_OthersKept(f) ==
    /\ feeds' \subseteq feeds
    /\ articles' \subseteq articles
    /\ history' \subseteq history
    /\ \A x \in feeds : x.id # f => x \in feeds'
    /\ \A a \in articles : a.feed_id # f => a \in articles'
    /\ \A h \in history : h.article_id \notin ArticleIdsOf(articles, f) => h \in history'

C22_DeleteStep == ret'.op = "delete_feed" => (C22_Gone(ret'.id) /\ C22_OthersKept(ret'.id))

(* C22: after delete_feed(f), the feed f, every article with feed_id = f and
   every reading_history row of those articles are gone, and all feeds,
   articles and history rows of other feeds are unchanged; no reading_history
   row is left referring to a deleted article. *)
C22_Theorem == [][C22_DeleteStep]_vars

\* a delete_feed has removed an article and its history row, and a feed, an
\* article and a history row of another feed are still there
C22_Witness ==
    /\ ret.op = "delete_feed"
    /\ feedSeq = 2 /\ Cardinality(feeds) = 1
    /\ articleSeq = 2 /\ Cardinality(articles) = 1
    /\ historySeq = 2 /\ Cardinality(history) = 1
    /\ \E x \in feeds, a \in articles, h \in history :
          a.feed_id = x.id /\ h.article_id = a.id

-----------------------------------------------------------------------------
\* the parse of a feed failed: feedparser raised, or reported an error and no entry
FetchFailed(parse) == parse.raises \/ (parse.bozo /\ parse.entries = <<>>)

C23_OnePerActiveFeed ==
    batch.pc = "done" =>
        /\ Len(batch.results) = Cardinality(batch.active)
        /\ {batch.results[k].feed_url : k \in 1..Len(batch.results)} = batch.active

C23_ErrorsReported ==
    \A k \in 1..Len(batch.results) :
        FetchFailed(batch.parses[k]) <=> batch.results[k].error # Null

C23_BatchGoesOn ==
    /\ \A k \in 1..Len(batch.results) :
          batch.results[k].feed_url \in batch.active
    /\ \A k \in 1..Len(batch.results) :
          ~FetchFailed(batch.parses[k]) =>
              \A j \in 1..Len(batch.parses[k].entries) :
                  batch.parses[k].entries[j].link # Null
                      => article_exists(articles, batch.parses[k].entries[j].link)

(* C23: fetch_all_feeds yields exactly one FetchResult for each feed that is
   active when the batch starts, and none for deactivated feeds; a feed whose
   fetch fails yields a result with an error and the feeds after it are still
   fetched and stored. *)
C23_Theorem == C23_OnePerActiveFeed /\ C23_ErrorsReported /\ C23_BatchGoesOn

\* a finished batch over three feeds of which one is deactivated: the first
\* fetch failed, the second stored an article
C23_Witness ==
    /\ batch.pc = "done"
    /\ Cardinality(feeds) = 3
    /\ \E f \in feeds : ~f.active
    /\ Len(batch.results) = 2
    /\ batch.results[1].error # Null
    /\ batch.results[2].error = Null
    /\ batch.results[2].articles_new > 0

-----------------------------------------------------------------------------
\* the call that has just returned named a feed or an article the store does
\* not hold
C24_UnknownId ==
    \/ ret'.op = "add_article" /\ \A f \in feeds : f.id # ret'.feed_id
    \/ ret'.op = "update_article_lightrag_id" /\ ArticleById(articles, ret'.id) = {}

(* C24: a write that names a feed id or article id that does not exist
   (add_article with an unknown feed_id; update_article_lightrag_id,
   update_feed_last_fetched, update_feed_title, deactivate_feed,
   activate_feed, delete_feed with an unknown id) fails with a NotFound error
   and leaves the store unchanged. *)
C24_Original ==
    [][C24_UnknownId =>
          (ret'.value = "NotFound" /\ articles' = articles /\ feeds' = feeds)]_vars

-----------------------------------------------------------------------------
NextDocId == (\E k \in 1..Len(DocLinks) : DocIdStart(k)) \/ DocIdRound \/ DocIdBlock \/ DocIdReturn
SpecDocId == Init /\ [][NextDocId]_vars

\* hashlib.md5(b"http://a.io/1").hexdigest() is 360bc34da7bf0ecae1b70ee08191d8a2
KnownAnswer ==
    md.ids[1] \in {NoDigest,
                   <<"3", "6", "0", "b", "c", "3", "4", "d", "a", "7", "b", "f", "0", "e", "c", "a",
                     "e", "1", "b", "7", "0", "e", "e", "0", "8", "1", "9", "1", "d", "8", "a", "2">>}

C25_Injective ==
    \A j, k \in 1..Len(DocLinks) :
        (md.ids[j] # NoDigest /\ md.ids[k] # NoDigest) =>
            /\ Len(md.ids[j]) = 32
            /\ \A n \in 1..32 : \E d \in 1..16 : md.ids[j][n] = HexDigits[d]
            /\ DocLinks[j] # DocLinks[k] => md.ids[j] # md.ids[k]

C25_SameOnEveryCall ==
    \A k \in 1..Len(DocLinks) : md.ids[k] # NoDigest => md'.ids[k] = md.ids[k]

(* C25: _generate_doc_id is a pure function of the link: the same link gives
   the same 32-character hex identifier on every call and in every program
   state, and two different links give different identifiers. *)
C25_Original == []C25_Injective /\ [][C25_SameOnEveryCall]_vars

-----------------------------------------------------------------------------
(* A tracker whose backing file gets damaged between calls *)

TrackerDamage ==
    /\ \E kind \in {"corrupt", "unreadable"} : Damage(kind)
    /\ UNCHANGED <<pipelineVars, retryVars, fetchVars, ingestVars, readingVars, batchVars,
                   docIdVars>>

NextDamage == NextTracker \/ TrackerDamage
SpecDamage == Init /\ [][NextDamage]_vars

\* a CostTracker is constructed on a damaged file
C26_StartsEmpty ==
    (/\ AllIdle /\ AllIdle'
     /\ file' = file
     /\ file.state \in {"corrupt", "unreadable"}
     /\ tret'["t1"].op = "CostTracker")
        => (ledger' = <<>> /\ tret'["t1"].value = 0)

\* record_call has appended its record and returned its cost; an unfiltered
\* get_summary is about to return the totals of the records
C26_Accepts ==
    /\ (AllIdle /\ tret["t1"].op = "record_call") =>
          /\ ledger # <<>>
          /\ ledger[Len(ledger)] = issued[Len(issued)]
          /\ tret["t1"].value = ExpectedCost(ledger[Len(ledger)])
    /\ Unfiltered("t1") =>
          /\ tsum["t1"].total_calls = Len(ledger)
          /\ tsum["t1"].total_cost_usd = SumCosts(FZero, ledger)

(* C26: constructing a CostTracker on a backing file that exists but is
   corrupt or unreadable raises nothing and starts with an empty record
   sequence; the tracker then accepts record_call and get_summary normally. *)
C26_Theorem == []C26_Accepts /\ [][C26_StartsEmpty]_vars

\* two calls were recorded, a tracker started empty on the damaged file, and
\* a third call was recorded by it while the file stays unreadable
C26_Witness ==
    /\ AllIdle
    /\ file.state = "unreadable"
    /\ Len(file.records) = 2
    /\ Len(issued) = 3
    /\ cleared = 0
    /\ Len(ledger) = 1
    /\ tret["t1"].op = "record_call"

-----------------------------------------------------------------------------
\* the results so far are those of the first articles selected, in the
\* selected order, one each
C27_InOrder(r) ==
    /\ Len(results[r]) <= Len(rsel[r])
    /\ \A k \in 1..Len(results[r]) : results[r][k].article_id = rsel[r][k].id
    /\ RunActive(r) => Len(results[r]) = ri[r] - 1
    /\ rpc[r] = "done" => Len(results[r]) = Len(rsel[r])
    /\ rpc[r] \in {"mark", "yield"} => rres[r].article_id = rsel[r][ri[r]].id

\* when the insert of an article is about to start, every earlier article of
\* the run whose insert succeeded carries its lightrag_id in the store
C27_MarkedBeforeNext(r) ==
    rpc[r] = "insert" =>
        \A k \in 1..(ri[r] - 1) :
            results[r][k].success =>
                \E a \in articles : /\ a.id = results[r][k].article_id
                                    /\ a.lightrag_id = results[r][k].lightrag_id
                                    /\ a.lightrag_id # Null

(* C27: within one ingest_pending_articles run the selected articles are
   handled strictly one after another in the selected order: for article k the
   engine insert and, on success, the lightrag_id write both complete before
   the engine insert for article k+1 starts; no two inserts of one run overlap
   and each selected article is attempted exactly once in the run. *)
C27_Theorem == C27_InOrder("r1") /\ C27_MarkedBeforeNext("r1")

\* the third insert of a run is about to start: the first succeeded and is
\* marked, the second failed and is still pending
C27_Witness ==
    /\ rpc["r1"] = "insert"
    /\ ri["r1"] = 3
    /\ results["r1"][1].success
    /\ ~results["r1"][2].success
    /\ \E a \in articles : a.id = rsel["r1"][2].id /\ a.lightrag_id = Null

-----------------------------------------------------------------------------
(* C28: ingest_pending_articles produces its results lazily: the consumer
   receives the result for article k before the engine insert for article k+1
   starts, so progress is reported per item while the run is under way. *)
C28_Original ==
    \A r \in Runs : rpc[r] = "insert" => Len(delivered[r]) = ri[r] - 1

-----------------------------------------------------------------------------
(* C31: the pending selection returns only articles with NULL lightrag_id,
   ordered by pub_date descending with articles of NULL pub_date after all
   dated ones, and returns at most limit articles for every given limit >= 0,
   including limit = 0. *)
C31_Selected(sel, limit) ==
    /\ \A k \in 1..Len(sel) :
          \E a \in articles : a.id = sel[k].id /\ a.lightrag_id = Null
    /\ \A j, k \in 1..Len(sel) : j < k =>
          \E a, b \in articles :
             /\ a.id = sel[j].id /\ b.id = sel[k].id
             /\ (a.pub_date = None => b.pub_date = None)
             /\ (a.pub_date # None /\ b.pub_date # None) => a.pub_date[1] >= b.pub_date[1]
    /\ limit # None => Len(sel) <= limit[1]
C31_Original ==
    [][runsStarted' = runsStarted + 1 => C31_Selected(rsel'["r1"], rlimit'["r1"])]_vars

-----------------------------------------------------------------------------
(* A tracker whose backing file cannot be written for a while *)
TrackerRepair ==
    /\ \E kind \in {"written", "corrupt"} : Repair(kind)
    /\ UNCHANGED <<pipelineVars, retryVars, fetchVars, ingestVars, readingVars, batchVars,
                   docIdVars>>

NextWriteFail == NextDamage \/ TrackerRepair
SpecWriteFail == Init /\ [][NextWriteFail]_vars

InSeq(x, sq) == \E k \in 1..Len(sq) : sq[k] = x

\* the failing _save of record_call: nothing is raised, the record is the last
\* one of the in-memory sequence
C32_FailStep ==
    failedSaves' # failedSaves =>
        /\ tpc'["t1"] = "rc_unlock"
        /\ ledger' = ledger
        /\ ledger # <<>>
        /\ ledger[Len(ledger)] = failedSaves'[Len(failedSaves')]
\* record_call returns the cost, whether its _save failed or not
C32_Returns ==
    (tpc["t1"] \in {"rc_save", "rc_dump", "rc_unlock"} /\ tpc'["t1"] = "idle") =>
        tret'["t1"] = [op |-> "record_call", value |-> ExpectedCost(ledger[Len(ledger)])]
\* a record whose _save failed leaves the in-memory sequence only by clear or
\* when a new tracker is constructed
C32_Stays ==
    \A k \in 1..Len(failedSaves) :
        (InSeq(failedSaves[k], ledger) /\ ~InSeq(failedSaves[k], ledger')) =>
            \/ tpc["t1"] = "cl_clear"
            \/ tret'["t1"].op = "CostTracker" /\ tret' # tret
\* every save that succeeds writes the whole in-memory sequence
C32_Written ==
    (tpc["t1"] \in {"rc_dump", "cl_dump"} /\ tpc'["t1"] # tpc["t1"]) =>
        file' = [state |-> "written", records |-> ledger]
\* an unfiltered get_summary counts every in-memory record
C32_Counted ==
    (tpc["t1"] = "gs_unlock" /\ tsince["t1"] = None) =>
        /\ tsum["t1"].total_calls = Len(ledger)
        /\ \A k \in 1..Len(failedSaves) :
              InSeq(failedSaves[k], ledger) =>
                 failedSaves[k].model \in DOMAIN tsum["t1"].by_model

(* C32: when writing the backing file fails during record_call, the call
   raises nothing and still returns the cost, the record stays in the
   in-memory sequence and is counted by get_summary, and the next successful
   save writes it to the file together with all other in-memory records. *)
C32_Theorem ==
    []C32_Counted /\ [][C32_FailStep /\ C32_Returns /\ C32_Stays /\ C32_Written]_vars

\* the save of the second record failed, the file became writable again, and
\* the save of the third record wrote all three
C32_Witness ==
    /\ AllIdle
    /\ cleared = 0
    /\ Len(failedSaves) = 1
    /\ Len(ledger) = 3
    /\ ledger[2] = failedSaves[1]
    /\ file = [state |-> "written", records |-> ledger]
    /\ tret["t1"].op = "record_call"

-----------------------------------------------------------------------------
\* the in-memory sequence changes by one append of record_call or by clear
C33_Step ==
    \/ ledger' = ledger
    \/ \E t \in Threads :
          /\ tpc[t] = "rc_append" /\ tpc'[t] = "rc_save"
          /\ Len(ledger') = Len(ledger) + 1
          /\ SubSeq(ledger', 1, Len(ledger)) = ledger
          /\ ledger'[Len(ledger')] = tcall[t]
    \/ \E t \in Threads :
          /\ tpc[t] = "cl_clear" /\ tpc'[t] = "cl_save"
          /\ ledger' = <<>>
\* a record_call adds its record, once; every other step of record_call and
\* every step of get_summary leaves the sequence as it is
C33_PerCall ==
    \A t \in Threads :
        /\ (tpc[t] = "rc_append" /\ tpc'[t] # tpc[t]) => ledger' = Append(ledger, tcall[t])
        /\ (tpc[t] \in {"idle", "rc_lock", "rc_save", "rc_dump", "rc_unlock",
                        "gs_lock", "gs_loop", "gs_unlock"}
            /\ <<tpc[t], ti[t]>> # <<tpc'[t], ti'[t]>>) => ledger' = ledger
\* the records held are records as record_call made them, known model or not
C33_Stored ==
    /\ \A k \in 1..Len(ledger) : InSeq(ledger[k], issued)
    /\ \A t \in Threads : tpc[t] \in {"rc_lock", "rc_append"} => InSeq(tcall[t], issued)

(* C33: the ledger is append-only: each record_call (for any model, known or
   unknown to the price table) leaves the previous record sequence as an
   unchanged prefix and adds exactly one record at the end; get_summary
   changes nothing; clear is the only operation that removes records, and no
   operation changes a stored record. *)
C33_Theorem == []C33_Stored /\ [][C33_Step /\ C33_PerCall]_vars

\* a record of a model that is not in the price table was appended after
\* another record, and a get_summary has run over both
C33_Witness ==
    /\ AllIdle
    /\ Len(ledger) = 2
    /\ ledger[1].model = "gpt-4o-mini"
    /\ ledger[2].model = "my-model"
    /\ ledger[2].cost_usd = <<1500, 1>>
    /\ \E t \in Threads : tret[t].op = "get_summary" /\ tret[t].value.total_calls = 2

-----------------------------------------------------------------------------
\* the result of a fetch that failed fatally: an error and no article
FatalResult(res) == res.error # Null /\ res.articles_found = 0
\* a step of fetch_and_store_feed(url) taken while the store has no row of url
C34_FirstFetch(url) ==
    /\ FeedByUrl(feeds, url) = {}
    /\ ret'.op = "fetch_and_store_feed"
    /\ ret'.feed_url = url
    /\ UNCHANGED runVars

(* C34: after fetch_and_store_feed(url) for a URL not yet in the store, a feed
   row for that URL exists, whether the fetch succeeded, succeeded partly, or
   failed fatally; the feed's last_fetched is stamped only when the fetch was
   not fatal. *)
C34_Original ==
    [][\A url \in Urls :
          C34_FirstFetch(url) =>
             \E f \in feeds' :
                 /\ f.url = url
                 /\ (f.last_fetched # None) <=> ~FatalResult(ret')]_vars

-----------------------------------------------------------------------------
(* The pipeline with a feed that lists the two texts of equal digest *)

\* the digests of generate_doc_id for "c2" and "c3" are those the rounds give
\* for DocLinks[2] and DocLinks[3]
CollisionAnswer ==
    \A k \in 2..3 :
        md.ids[k] \in {NoDigest,
                       <<"f", "a", "a", "d", "4", "9", "8", "6", "6", "e", "9", "4", "9", "8", "f", "c",
                         "1", "7", "1", "9", "f", "5", "2", "8", "9", "e", "7", "a", "0", "2", "6", "9">>}

CollidingListing == <<Entry("c2", "A", "body", Some(2)), Entry("c3", "B", Null, Some(1))>>
CollidingStates ==
    {[raises |-> FALSE, bozo |-> FALSE, bozo_exception |-> Null,
      title |-> "Feed", entries |-> Take(CollidingListing, k)] : k \in 1..MaxEntries}

FetchColliding ==
    /\ \E parse \in CollidingStates : fetch_and_store_feed("u1", MaxEntries, parse)
    /\ UNCHANGED <<retryVars, ledgerVars, fetchVars, ingestVars, readingVars, batchVars, docIdVars>>

NextCollide == FetchColliding \/ StartRun \/ Insert \/ Mark \/ Yield \/ Deliver
SpecCollide == Init /\ [][NextCollide]_vars

C35_FromLink ==
    \A a \in articles : a.lightrag_id # Null => a.lightrag_id = generate_doc_id(a.link)
C35_Distinct ==
    \A a, b \in articles : (a # b /\ a.lightrag_id # Null) => a.lightrag_id # b.lightrag_id
C35_EngineId ==
    \A a \in articles : a.lightrag_id # Null => inserted[a.lightrag_id] >= 1

(* C35: every non-NULL lightrag_id written by an ingest_pending_articles run
   equals _generate_doc_id of that same article's link, so in a store written
   only by the pipeline two articles never carry the same lightrag_id and the
   stored id always matches the id the engine received. *)
C35_Original == C35_FromLink /\ C35_Distinct /\ C35_EngineId

-----------------------------------------------------------------------------
\* the last outcome of the wrapped call
LastCall == calls[Len(calls)]
C36_Bounded ==
    /\ Len(calls) <= 3
    /\ wpc = "call" => Len(calls) < 3
    /\ wpc = "call" => wresult.kind = "none"
C36_Ends ==
    Finished =>
        /\ calls # <<>>
        /\ \/ wpc = "returned" /\ LastCall.kind = "return" /\ wresult = Returned(LastCall.payload)
           \/ /\ wpc = "raised" /\ LastCall.kind = "raise"
              /\ wresult = [kind |-> "LLMError", payload |-> LastCall.payload]
        /\ wresult.payload # MaxRetriesExceeded
        /\ \A k \in 1..(Len(calls) - 1) : calls[k].kind = "raise"

(* C36: for every sequence of outcomes of the wrapped call, mixing retryable
   and non-retryable errors in any order, handle_api_error makes at most 3
   attempts and ends either by returning the call's value or by raising
   LLMError with the message of the last error raised; it never lets the
   original exception type escape, and the final statement raising
   'Max retries (3) exceeded' is never reached. *)
C36_Theorem == C36_Bounded /\ C36_Ends

\* two different retryable errors and then an error that is not retryable:
\* LLMError carries the text of the third
C36_Witness ==
    /\ wpc = "raised"
    /\ Len(calls) = 3
    /\ calls[1] = Raised(<<"4","2","9">>)
    /\ calls[2] = Raised(<<"H","T","T","P"," ","5","0","3">>)
    /\ calls[3] = Raised(<<"5","0","0">>)
    /\ wresult = [kind |-> "LLMError", payload |-> <<"5","0","0">>]

-----------------------------------------------------------------------------
(* Two ingest runs on the same store that overlap in time *)
OverlapStart ==
    /\ \E r \in Runs, limit \in Limits : IngestStart(r, limit)
    /\ UNCHANGED <<retryVars, ledgerVars, fetchVars, ingestVars, readingVars, batchVars, docIdVars>>
OverlapInsert ==
    /\ \E r \in Runs, outcome \in EngineOutcomes : IngestArticle(r, outcome)
    /\ UNCHANGED <<retryVars, ledgerVars, fetchVars, ingestVars, readingVars, batchVars, docIdVars>>
OverlapMark ==
    /\ \E r \in Runs : MarkIngested(r)
    /\ UNCHANGED <<retryVars, ledgerVars, fetchVars, ingestVars, readingVars, batchVars, docIdVars>>
OverlapYield ==
    /\ \E r \in Runs : YieldResult(r)
    /\ UNCHANGED <<retryVars, ledgerVars, fetchVars, ingestVars, readingVars, batchVars, docIdVars>>

NextOverlap == Fetch \/ OverlapStart \/ OverlapInsert \/ OverlapMark \/ OverlapYield
SpecOverlap == Init /\ [][NextOverlap]_vars

\* the results of run r for article id, and whether one of them is a success
ResultsFor(r, id) == {k \in 1..Len(results[r]) : results[r][k].article_id = id}
SucceededIn(r, id) == \E k \in ResultsFor(r, id) : results[r][k].success
BothFinished == \A r \in Runs : rpc[r] = "done"

\* every identifier a run has passed on is the one of the article's link
C37_SameId ==
    \A r \in Runs : \A k \in 1..Len(results[r]) :
        results[r][k].success =>
            \E a \in articles :
                /\ a.id = results[r][k].article_id
                /\ results[r][k].lightrag_id = generate_doc_id(a.link)
\* inserted counts the successful inserts of all runs so far, per identifier
C37_AfterBoth ==
    NoRunActive =>
        \A a \in articles :
            /\ (\E r \in Runs : SucceededIn(r, a.id)) => a.lightrag_id = generate_doc_id(a.link)
            /\ inserted[generate_doc_id(a.link)] >= 1 => a.lightrag_id = generate_doc_id(a.link)
            /\ inserted[generate_doc_id(a.link)] = 0 => a.lightrag_id = Null

(* C37: when two ingest_pending_articles runs on the same store overlap in
   time, an article may be passed to the engine by both runs, but both use the
   same identifier, and after both runs finish every article whose insert
   succeeded in at least one run has lightrag_id equal to
   _generate_doc_id(link) and no article whose inserts all failed is marked. *)
C37_Theorem == C37_SameId /\ C37_AfterBoth

\* both runs selected the same article before either marked it; the insert of
\* one failed after the other had succeeded and marked the article
C37_Witness ==
    /\ BothFinished
    /\ \E a \in articles :
          /\ SucceededIn("r1", a.id)
          /\ ResultsFor("r2", a.id) # {}
          /\ ~SucceededIn("r2", a.id)
          /\ inserted[generate_doc_id(a.link)] = 1
          /\ a.lightrag_id = generate_doc_id(a.link)
    /\ \E b \in articles :
          /\ SucceededIn("r1", b.id) /\ SucceededIn("r2", b.id)
          /\ inserted[generate_doc_id(b.link)] = 2
          /\ marks[b.id] = 2

-----------------------------------------------------------------------------
(* The pipeline with feeds that are deleted and fetched again *)
RefetchDelete ==
    /\ NoRunActive
    /\ \E id \in 1..2 : DeleteFeed("c1", id)
    /\ UNCHANGED <<retryVars, ledgerVars, fetchVars, ingestVars, batchVars, docIdVars>>

NextRefetch == Fetch \/ RefetchDelete \/ StartRun \/ Insert \/ Mark \/ Yield \/ Deliver
SpecRefetch == Init /\ [][NextRefetch]_vars

\* between runs: the article's link was passed to the engine with success, so
\* an article of that link was marked, and this row has never been marked
Resubmitted(a) ==
    /\ NoRunActive
    /\ inserted[generate_doc_id(a.link)] >= 1
    /\ marks[a.id] = 0
SelectedIds(sel) == {sel[k].id : k \in 1..Len(sel)}

\* a row added to the table is a new article: an id that no row has had, and
\* no lightrag_id
C38_NewRow ==
    \A a \in articles' :
        (\A b \in articles : b.id # a.id) =>
            /\ a.lightrag_id = Null
            /\ marks[a.id] = 0
            /\ a.id > articleSeq
C38_Pending ==
    \A a \in articles : Resubmitted(a) => a.lightrag_id = Null
\* the next run selects it
C38_Selected ==
    runsStarted' = runsStarted + 1 =>
        \A a \in articles : Resubmitted(a) => a.id \in SelectedIds(rsel'["r1"])
\* the next run selects it, or was given a positive limit and selected that
\* many other pending articles
C38_SelectedOrCut ==
    runsStarted' = runsStarted + 1 =>
        \A a \in articles :
            Resubmitted(a) =>
                \/ a.id \in SelectedIds(rsel'["r1"])
                \/ /\ rlimit'["r1"] \notin {None, Some(0)}
                   /\ Len(rsel'["r1"]) = rlimit'["r1"][1]
\* every selected article is passed to the engine, with the identifier of its
\* link
C38_PassedAgain ==
    (rpc["r1"] = "insert" /\ rpc'["r1"] # "insert") =>
        LET a == rsel["r1"][ri["r1"]]
            d == generate_doc_id(a.link)
        IN /\ rres'["r1"].article_id = a.id
           /\ rres'["r1"].success =>
                 (rres'["r1"].lightrag_id = d /\ inserted'[d] = inserted[d] + 1)
           /\ ~rres'["r1"].success => inserted' = inserted
C38_AllAttempted ==
    rpc["r1"] = "done" =>
        /\ Len(results["r1"]) = Len(rsel["r1"])
        /\ \A k \in 1..Len(rsel["r1"]) : results["r1"][k].article_id = rsel["r1"][k].id

(* C38 as claimed: a link whose article was marked submitted, then removed by
   delete_feed and inserted again by a later fetch_and_store_feed, is a new
   article with NULL lightrag_id: it is selected by the next
   ingest_pending_articles run and passed to the engine again, with the same
   identifier as at its first submission. *)
C38_Original ==
    /\ [](C38_Pending /\ C38_AllAttempted)
    /\ [][C38_NewRow /\ C38_Selected /\ C38_PassedAgain]_vars

(* C38 as amended: ... it is selected by the next run unless that run was
   given a positive limit and selected that many other pending articles, and
   every article a run selects is passed to the engine, with the same
   identifier as at its first submission. *)
C38_Theorem ==
    /\ [](C38_Pending /\ C38_AllAttempted)
    /\ [][C38_NewRow /\ C38_SelectedOrCut /\ C38_PassedAgain]_vars

\* the article of l1 was ingested, deleted with its feed, fetched again as a
\* new row and ingested again: the engine got its identifier twice
C38_Witness ==
    /\ rpc["r1"] = "done"
    /\ marks[1] = 1
    /\ \E a \in articles :
          /\ a.link = "l1"
          /\ a.id = 2
          /\ marks[2] = 1
          /\ a.lightrag_id = generate_doc_id("l1")
          /\ inserted[generate_doc_id("l1")] = 2
    /\ \A a \in articles : a.id # 1

====
